---- MODULE Spec2Model ----
(***************************************************************************)
(* Signature extraction pipeline of signcut-pro.                           *)
(*                                                                         *)
(*   services/imageProcessing.ts  processSignatureRegions,                 *)
(*                                processSingleSignatureWithOpenCV         *)
(*   App.tsx                      the handlers that start pipeline runs    *)
(*                                                                         *)
(* JavaScript runs one task at a time: an async function keeps the thread  *)
(* from one await to the next.  The variable thread names the run that     *)
(* holds the thread (0: none).  Every action is a piece of code between    *)
(* two awaits, or one iteration step of the region loop.                   *)
(*                                                                         *)
(* Box coordinates are JavaScript numbers (the editor produces fractions); *)
(* they are kept in fixed point, SubPixel units per pixel.                 *)
(***************************************************************************)
EXTENDS Integers, Sequences, FiniteSets, TLC

VARIABLES
    runs,          \* run id -> activation record of processSignatureRegions and of its caller
    thread,        \* the run holding the JavaScript thread, 0 when the event loop is idle
    heap,          \* native buffers (cv.Mat, cv.MatVector) allocated and never deleted
    doubleFreed,   \* native buffers on which delete() was called twice
    faults,        \* number of environment failures injected so far
    status,        \* App: ProcessingStatus
    isRecomputing, \* App: background update flag
    signatures,    \* App: the displayed signature list
    uploadedImages,\* App: the uploaded images, in order
    activeImageId, \* App: id of the image shown in the editor, "" for null
    outputSize,    \* App: requested output size
    processingMode,\* App: 'local' or 'ai'
    aiKey,         \* App: whether aiConfig.apiKey is set
    nextImage,     \* number of images added so far (source of fresh image ids)
    started,       \* number of processing requests the user has made so far
    twice,         \* second-run bookkeeping of the repeated-run specification
    probe,         \* one evaluation of a pure step of the pipeline: its inputs, then its result
    editor,        \* ImageEditor: the component's state
    cvLoader       \* loadOpenCV: the module-level promise, its timers, window.cv

vars == << runs, thread, heap, doubleFreed, faults, status, isRecomputing, signatures,
           uploadedImages, activeImageId, outputSize, processingMode, aiKey, nextImage, started,
           twice, probe, editor, cvLoader >>

appVars == << status, isRecomputing, signatures, uploadedImages, activeImageId,
              outputSize, processingMode, aiKey, nextImage, started >>

-----------------------------------------------------------------------------
(* Bounds of the model *)

MaxRuns == 2
MaxFaults == 1
MaxImages == 2
SubPixel == 2
MaxContours == 2
MaxCalls == 3
MaskSide == 24
GridSide == 3
MaxBoxes == 2
MaxTurn == 45
MaxGestures == 3
MaxLoads == 3

(* Program constants *)

blurPad == 4
MinPadding == 10
PaddingDen == 20
DefaultSensitivity == 20
SNAP_THRESHOLD == 20
ROTATION_SNAP_THRESHOLD == 5
ROTATION_SNAP_INTERVAL == 45
MinDrawn == 10
PollMs == 100
TimeoutMs == 10000
DefaultOutputWidth == 452
DefaultOutputHeight == 224
SliderMin == 5
SliderMax == 40
DetectPad == 20

RunIds == 1..MaxRuns

Min(a, b) == IF a <= b THEN a ELSE b
Max(a, b) == IF a >= b THEN a ELSE b

\* Math.round of the rational n/d, d > 0: halves round towards +infinity
Round(n, d) == (2 * n + d) \div (2 * d)

\* Math.floor of the rational n/d, d > 0
Floor(n, d) == n \div d

\* a box coordinate of n whole pixels
Px(n) == n * SubPixel

\* canvas.width = v: the number is truncated to an unsigned integer
CanvasDim(v) == IF v <= 0 THEN 0 ELSE v \div SubPixel

-----------------------------------------------------------------------------
(* Source images.  ink lists, in image pixels, the solid rectangles that   *)
(* adaptive thresholding leaves in the binary mask of the image.           *)

FileA == [ id |-> "imgA", width |-> 1000, height |-> 600, brightness |-> 200,
           ink |-> << [x |-> 150, y |-> 120, width |-> 200, height |-> 80],
                      [x |-> 120, y |-> 110, width |-> 4, height |-> 4] >> ]

FileB == [ id |-> "imgB", width |-> 60, height |-> 40, brightness |-> 80,
           ink |-> << >> ]

Files == { FileA, FileB }

Box(id, x, y, w, h, rot) ==
    [ id |-> id, x |-> x, y |-> y, width |-> w, height |-> h, rotation |-> rot ]

\* the region substituted for an empty list: the whole image
FullImageBox(img) ==
    Box("full-image-" \o img.id, 0, 0, Px(img.width), Px(img.height), 0)

-----------------------------------------------------------------------------
(* The crop canvas of one region: processSignatureRegions, step 1.         *)

NoPixels == [ file |-> "", x |-> 0, y |-> 0, rotation |-> 0, width |-> 0, height |-> 0 ]

\* cropCanvas after width/height assignment and drawImage
ExtractCrop(file, box) ==
    [ file |-> file.id, x |-> box.x, y |-> box.y, rotation |-> box.rotation,
      width |-> CanvasDim(box.width), height |-> CanvasDim(box.height) ]

FileOf(id) == CHOOSE f \in Files : f.id = id

\* canvas.toDataURL(): the PNG of the canvas, identified by size and content
ToDataURL(canvas) == [ w |-> canvas.width, h |-> canvas.height, px |-> canvas ]

\* The ink rectangle r of the image as it appears on the crop canvas
\* (a rotation of 180 degrees about the centre mirrors both axes).
ClipToCanvas(r, canvas) ==
    LET ox == Floor(canvas.x, SubPixel)
        oy == Floor(canvas.y, SubPixel)
        x0 == Max(r.x, ox) - ox
        x1 == Min(r.x + r.width, ox + canvas.width) - ox
        y0 == Max(r.y, oy) - oy
        y1 == Min(r.y + r.height, oy + canvas.height) - oy
    IN  IF canvas.rotation = 180
        THEN [ x |-> canvas.width - x1, y |-> canvas.height - y1,
               width |-> x1 - x0, height |-> y1 - y0 ]
        ELSE [ x |-> x0, y |-> y0, width |-> x1 - x0, height |-> y1 - y0 ]

\* adaptiveThreshold(..., THRESH_BINARY_INV, ...): the binary mask of the crop
AdaptiveBinary(canvas) ==
    LET ink == FileOf(canvas.file).ink
        clipped == [ k \in 1..Len(ink) |-> ClipToCanvas(ink[k], canvas) ]
    IN  SelectSeq(clipped, LAMBDA r : r.width > 0 /\ r.height > 0)

\* brightness > 160 ? s + 2 : brightness < 90 ? s - 2 : s
BaseC(brightness, sensitivity) ==
    IF brightness > 160 THEN sensitivity + 2
    ELSE IF brightness < 90 THEN sensitivity - 2
    ELSE sensitivity

\* blockSize of the crop: floor(min/8), made odd, at least 31
BlockSize(cols, rows) ==
    LET b == Floor(Min(cols, rows), 8)
        odd == IF b % 2 = 0 THEN b + 1 ELSE b
    IN  IF odd < 31 THEN 31 ELSE odd

\* morphologyEx(MORPH_OPEN, 3x3 rectangle): solid rectangles thinner than
\* the kernel disappear, the others are unchanged; outside the mask counts as
\* set for the erosion, so a border a rectangle touches adds to its thickness
MorphOpen(mask, cols, rows) ==
    SelectSeq(mask, LAMBDA r :
        /\ r.width + (IF r.x = 0 THEN 1 ELSE 0) + (IF r.x + r.width = cols THEN 1 ELSE 0) >= 3
        /\ r.height + (IF r.y = 0 THEN 1 ELSE 0) + (IF r.y + r.height = rows THEN 1 ELSE 0) >= 3)

\* an adjustment that would thin at low and thicken at high sensitivity
WeightAdjustmentSwapped(sensitivity) ==
    IF sensitivity < 12 THEN "erode"
    ELSE IF sensitivity > 28 THEN "dilate"
    ELSE "none"

\* an adjustment whose two thresholds would be inclusive
WeightAdjustmentInclusive(sensitivity) ==
    IF sensitivity <= 12 THEN "dilate"
    ELSE IF sensitivity >= 28 THEN "erode"
    ELSE "none"

\* which weight adjustment the sensitivity selects
WeightAdjustment(sensitivity) ==
    IF sensitivity < 12 THEN "dilate"
    ELSE IF sensitivity > 28 THEN "erode"
    ELSE "none"

\* cv.dilate with the 3x3 ellipse: one pixel more on each side, inside the mask
Dilate(r, cols, rows) ==
    LET x0 == Max(0, r.x - 1)
        y0 == Max(0, r.y - 1)
        x1 == Min(cols, r.x + r.width + 1)
        y1 == Min(rows, r.y + r.height + 1)
    IN  [ x |-> x0, y |-> y0, width |-> x1 - x0, height |-> y1 - y0 ]

\* cv.erode with the 3x3 ellipse: one pixel less on each side that does not
\* lie on the mask border (outside the mask counts as set)
Erode(r, cols, rows) ==
    LET x0 == IF r.x = 0 THEN 0 ELSE r.x + 1
        y0 == IF r.y = 0 THEN 0 ELSE r.y + 1
        x1 == IF r.x + r.width = cols THEN cols ELSE r.x + r.width - 1
        y1 == IF r.y + r.height = rows THEN rows ELSE r.y + r.height - 1
    IN  [ x |-> x0, y |-> y0, width |-> x1 - x0, height |-> y1 - y0 ]

\* processingBinary after opening and weight adjustment
RefinedMask(canvas, sensitivity) ==
    LET opened == MorphOpen(AdaptiveBinary(canvas), canvas.width, canvas.height)
        adj == WeightAdjustment(sensitivity)
        moved == [ k \in 1..Len(opened) |->
                     IF adj = "dilate" THEN Dilate(opened[k], canvas.width, canvas.height)
                     ELSE IF adj = "erode" THEN Erode(opened[k], canvas.width, canvas.height)
                     ELSE opened[k] ]
    IN  SelectSeq(moved, LAMBDA r : r.width > 0 /\ r.height > 0)

\* The same steps on single pixels.  A mask is the set of its ink pixels
\* <<x, y>>; grid is the set of all pixels of the crop.

\* getStructuringElement(MORPH_RECT, 3x3) and (MORPH_ELLIPSE, 3x3): the
\* offsets of the kernel's pixels from its anchor, the centre
RectKernel == { d \in (-1..1) \X (-1..1) : TRUE }
EllipseKernel == { d \in (-1..1) \X (-1..1) : d[1] = 0 \/ d[2] = 0 }

Shift(p, d) == << p[1] + d[1], p[2] + d[2] >>

\* adaptiveThreshold(..., THRESH_BINARY_INV, blockSize, C): a pixel is ink
\* when it is darker than its weighted neighbourhood mean by at least C;
\* margins[p] is that mean minus the pixel's value
ThresholdMask(margins, c) == { p \in DOMAIN margins : margins[p] >= c }

\* cv.erode: a pixel stays when every kernel pixel inside the crop is ink
ErodeMask(S, kernel, grid) ==
    { p \in grid : \A d \in kernel : Shift(p, d) \in grid => Shift(p, d) \in S }

\* cv.dilate: a pixel is set when some kernel pixel is ink
DilateMask(S, kernel, grid) ==
    { p \in grid : \E d \in kernel : Shift(p, d) \in S }

\* morphologyEx(MORPH_OPEN, kernel): erosion, then dilation
OpenMask(S, kernel, grid) == DilateMask(ErodeMask(S, kernel, grid), kernel, grid)

\* lines 464-498: processingBinary of a crop with these margins and brightness
RefinedPixels(margins, brightness, sensitivity) ==
    LET grid == DOMAIN margins
        opened == OpenMask(ThresholdMask(margins, BaseC(brightness, sensitivity)),
                           RectKernel, grid)
        adj == WeightAdjustment(sensitivity)
    IN  IF adj = "dilate" THEN DilateMask(opened, EllipseKernel, grid)
        ELSE IF adj = "erode" THEN ErodeMask(opened, EllipseKernel, grid)
        ELSE opened

\* findContours + contourArea + boundingRect: one external contour per
\* rectangle; the contour runs through the centres of the border pixels
ContourStats(mask) ==
    [ k \in 1..Len(mask) |->
        [ area |-> (mask[k].width - 1) * (mask[k].height - 1), rect |-> mask[k] ] ]

-----------------------------------------------------------------------------
(* Smart cropping, scaling and centring: lines 512-590.                    *)

SetMax(S) == CHOOSE m \in S : \A n \in S : n <= m
SetMin(S) == CHOOSE m \in S : \A n \in S : m <= n

\* a threshold that would keep only the absolute minimum
ExceedsAbsoluteMinimum(area, maxContourArea) == area > 20

\* area > areaThreshold, areaThreshold = max(20, maxContourArea * 0.01)
ExceedsAreaThreshold(area, maxContourArea) ==
    area > 20 /\ 100 * area > maxContourArea

\* the union box of the contours above the threshold, as the loop leaves it
ContentBounds(stats, cols, rows) ==
    LET maxContourArea == SetMax({0} \cup { stats[k].area : k \in 1..Len(stats) })
        kept == { k \in 1..Len(stats) : ExceedsAreaThreshold(stats[k].area, maxContourArea) }
    IN  [ hasContent |-> kept # {},
          minX |-> SetMin({cols} \cup { stats[k].rect.x : k \in kept }),
          minY |-> SetMin({rows} \cup { stats[k].rect.y : k \in kept }),
          maxX |-> SetMax({0} \cup { stats[k].rect.x + stats[k].rect.width : k \in kept }),
          maxY |-> SetMax({0} \cup { stats[k].rect.y + stats[k].rect.height : k \in kept }) ]

\* the rectangle of tempRgba that is scaled: the padded content box, or all of it
CropRect(b, cols, rows) ==
    IF b.hasContent
    THEN LET cropX == Max(0, b.minX - blurPad)
             cropY == Max(0, b.minY - blurPad)
         IN  [ hasContent |-> TRUE, x |-> cropX, y |-> cropY,
               width |-> Min(cols - cropX, (b.maxX - b.minX) + blurPad * 2),
               height |-> Min(rows - cropY, (b.maxY - b.minY) + blurPad * 2) ]
    ELSE [ hasContent |-> FALSE, x |-> 0, y |-> 0, width |-> cols, height |-> rows ]

\* padding * PaddingDen, padding = max(10, min(targetWidth, targetHeight) * 0.05)
PaddingScaled(targetWidth, targetHeight) ==
    Max(MinPadding * PaddingDen, Min(targetWidth, targetHeight))

\* a placement that would forget to halve the free space
PlacementFlush(cropCols, cropRows, targetWidth, targetHeight) ==
    LET availW == PaddingDen * targetWidth - 2 * PaddingScaled(targetWidth, targetHeight)
        availH == PaddingDen * targetHeight - 2 * PaddingScaled(targetWidth, targetHeight)
        byWidth == availW * cropRows <= availH * cropCols
        num == IF byWidth THEN availW ELSE availH
        den == PaddingDen * (IF byWidth THEN cropCols ELSE cropRows)
        w == Round(cropCols * num, den)
        h == Round(cropRows * num, den)
    IN  [ width |-> w, height |-> h, dx |-> targetWidth - w, dy |-> targetHeight - h,
          interpolation |-> IF num > den THEN "INTER_CUBIC" ELSE "INTER_AREA" ]

\* dsize and the offsets dx, dy of the scaled content on the output canvas
Placement(cropCols, cropRows, targetWidth, targetHeight) ==
    LET availW == PaddingDen * targetWidth - 2 * PaddingScaled(targetWidth, targetHeight)
        availH == PaddingDen * targetHeight - 2 * PaddingScaled(targetWidth, targetHeight)
        byWidth == availW * cropRows <= availH * cropCols
        \* scale = num / den
        num == IF byWidth THEN availW ELSE availH
        den == PaddingDen * (IF byWidth THEN cropCols ELSE cropRows)
        w == Round(cropCols * num, den)
        h == Round(cropRows * num, den)
    IN  [ width |-> w, height |-> h,
          dx |-> Floor(targetWidth - w, 2), dy |-> Floor(targetHeight - h, 2),
          interpolation |-> IF num > den THEN "INTER_CUBIC" ELSE "INTER_AREA" ]

\* cv.resize raises when dsize is empty
ResizeThrows(p) == p.width <= 0 \/ p.height <= 0

\* Mat.roi raises when the rectangle leaves the matrix
RoiThrows(x, y, w, h, cols, rows) ==
    ~(0 <= x /\ 0 <= w /\ x + w <= cols /\ 0 <= y /\ 0 <= h /\ y + h <= rows)

-----------------------------------------------------------------------------
(* Native buffers of processSingleSignatureWithOpenCV.  The function is a  *)
(* list of steps: <<"new", b>> allocates buffer b, <<"del", b>> calls      *)
(* b.delete(), <<"gdel", b>> is "if (b && !b.isDeleted()) b.delete()" and  *)
(* <<"pt", s>> is the library call of stage s, which may raise.            *)

RECURSIVE Repeat(_, _)
Repeat(ops, n) == IF n <= 0 THEN << >> ELSE ops \o Repeat(ops, n - 1)

\* lines 443-447: before the try block (imread is handled by the caller of these lists)
PreOps ==
    << <<"new", "src">>, <<"new", "dst">>, <<"new", "gray">>, <<"new", "blurred">>,
       <<"new", "kernel0">> >>

\* lines 457-636: the try block, adj the weight adjustment the sensitivity selects
TryOps(adj, hasContent, nContours) ==
    << <<"pt", "cvtColor">>, <<"pt", "GaussianBlur">>,
       <<"new", "mean">>, <<"new", "stddev">>, <<"pt", "meanStdDev">>,
       <<"del", "mean">>, <<"del", "stddev">>,
       <<"new", "adaptiveBinary">>, <<"pt", "adaptiveThreshold">>,
       <<"new", "processingBinary">>,
       <<"new", "kernel">>, <<"pt", "morphologyEx">> >>
    \o (IF adj = "none" THEN << >>
        ELSE << <<"new", "morphKernel">>, <<"pt", adj>>, <<"del", "morphKernel">> >>)
    \o << <<"new", "softMask">>, <<"pt", "softBlur">>,
          <<"new", "finalMat">>,
          <<"new", "contours">>, <<"new", "hierarchy">>, <<"pt", "findContours">> >>
    \o Repeat(<< <<"new", "contour">>, <<"del", "contour">> >>, nContours)
    \o << <<"new", "tempRgba">>, <<"new", "channels">>, <<"new", "blackPlane">>,
          <<"pt", "merge">>, <<"del", "blackPlane">> >>
    \o (IF hasContent THEN << <<"pt", "cropRoi">>, <<"new", "cropped">> >> ELSE << >>)
    \o << <<"new", "resized">>, <<"pt", "resize">>,
          <<"pt", "finalRoi">>, <<"new", "roi">>,
          <<"new", "resizedChannels">>, <<"pt", "split">>, <<"new", "alpha">>,
          <<"new", "inverseAlpha">>, <<"pt", "bitwise_not">>,
          <<"new", "finalChannels">>, <<"new", "opaque">>, <<"new", "blended">>,
          <<"pt", "mergeFinal">>, <<"pt", "copyTo">>,
          \* Cleanup, lines 618-626
          <<"del", "channels">>, <<"del", "resizedChannels">>, <<"del", "alpha">>,
          <<"del", "inverseAlpha">>, <<"del", "finalChannels">>, <<"del", "opaque">>,
          <<"del", "blended">>, <<"del", "roi">>, <<"del", "softMask">> >>
    \o (IF hasContent THEN << <<"del", "cropped">> >> ELSE << >>)
    \o << <<"del", "tempRgba">>, <<"del", "resized">>, <<"del", "contours">>,
          <<"del", "hierarchy">>,
          <<"pt", "imshow">>, <<"del", "finalMat">>, <<"pt", "toDataURL">> >>

\* lines 641-653: the finally block; kernelVar is the buffer the variable
\* kernel refers to when the block runs
FinallyOps(kernelVar) ==
    << <<"del", "src">>, <<"del", "dst">>, <<"del", "gray">>, <<"del", "blurred">>,
       <<"gdel", kernelVar>>, <<"gdel", "adaptiveBinary">>, <<"gdel", "processingBinary">>,
       <<"gdel", "contours">>, <<"gdel", "hierarchy">>, <<"gdel", "softMask">>,
       <<"gdel", "finalMat">>, <<"gdel", "tempRgba">> >>

\* the stages of the try block at which the library may raise
Stages ==
    { "cvtColor", "GaussianBlur", "meanStdDev", "adaptiveThreshold", "morphologyEx",
      "dilate", "erode", "softBlur", "findContours", "merge", "cropRoi", "resize",
      "finalRoi", "split", "bitwise_not", "mergeFinal", "copyTo", "imshow", "toDataURL" }

\* the steps executed before the first stage in throwing raises
Executed(ops, throwing) ==
    LET hits == { k \in 1..Len(ops) : ops[k][1] = "pt" /\ ops[k][2] \in throwing }
    IN  IF hits = {} THEN ops ELSE SubSeq(ops, 1, SetMin(hits) - 1)

\* the stages that completed in a list of executed steps
StagesPassed(body) == { body[k][2] : k \in { j \in 1..Len(body) : body[j][1] = "pt" } }

\* the stage that raised, "none" when the steps ran to the end
RaisedStage(ops, throwing) ==
    LET hits == { k \in 1..Len(ops) : ops[k][1] = "pt" /\ ops[k][2] \in throwing }
    IN  IF hits = {} THEN "none" ELSE ops[SetMin(hits)][2]

\* the buffers a list of steps allocates
Allocated(trace) == { trace[k][2] : k \in { j \in 1..Len(trace) : trace[j][1] = "new" } }

\* the steps of trace that concern buffer b
StepsOn(trace, b) == SelectSeq(trace, LAMBDA op : op[1] # "pt" /\ op[2] = b)

\* buffers allocated by trace and not deleted since
LiveAfter(trace) ==
    { b \in Allocated(trace) :
        LET on == StepsOn(trace, b) IN on[Len(on)][1] = "new" }

\* buffers on which trace calls delete() although they are already deleted
DoubleDeleted(trace) ==
    { b \in Allocated(trace) :
        LET on == StepsOn(trace, b)
        IN  \E k \in 2..(Len(on) - 1) :
               /\ on[k][1] \in {"del", "gdel"}
               /\ on[k + 1][1] = "del"
               /\ \E n \in 1..(k - 1) : on[n][1] = "new" }

\* a catch block that would return an empty image instead of the crop
FallbackBlank(sourceCanvas) == [ w |-> 0, h |-> 0, px |-> NoPixels ]

\* line 640, the catch block: the unprocessed crop is returned
FallbackUrl(sourceCanvas) == ToDataURL(sourceCanvas)

\* a cv.imread that would also raise once earlier calls have left buffers allocated
ImreadThrowsOnLeftovers(canvas) == canvas.width = 0 \/ canvas.height = 0 \/ heap # {}

\* cv.imread(sourceCanvas): getImageData raises on a canvas without pixels
ImreadThrows(canvas) == canvas.width = 0 \/ canvas.height = 0

\* the stages that raise for this crop: the injected fault and the library
\* calls whose arguments are out of range
ThrowingStages(rect, p, cols, rows, targetWidth, targetHeight, fault) ==
    {fault}
    \cup (IF RoiThrows(rect.x, rect.y, rect.width, rect.height, cols, rows)
          THEN {"cropRoi"} ELSE {})
    \cup (IF ResizeThrows(p) THEN {"resize"} ELSE {})
    \cup (IF RoiThrows(p.dx, p.dy, p.width, p.height, targetWidth, targetHeight)
          THEN {"finalRoi"} ELSE {})

\* the buffer the variable kernel refers to once body has run (line 480
\* reassigns it)
KernelVar(body) ==
    IF \E k \in 1..Len(body) : body[k] = <<"new", "kernel">> THEN "kernel" ELSE "kernel0"

\* the steps of one call: the body up to the exception, then the finally block
Trace(body) == body \o FinallyOps(KernelVar(body))

\* lines 629-636: the output canvas as a data URL; its pixels are determined
\* by the crop, the threshold parameters, the mask and the placement
Bitmap(canvas, sensitivity, targetWidth, targetHeight, mask, rect, p) ==
    [ w |-> targetWidth, h |-> targetHeight,
      px |-> [ src |-> canvas,
               C |-> BaseC(FileOf(canvas.file).brightness, sensitivity),
               blockSize |-> BlockSize(canvas.width, canvas.height),
               ink |-> mask, crop |-> rect, place |-> p ] ]

\* what a call leaves behind, by the shape of its steps (the weight
\* adjustment, whether content was found, the number of contours) and the
\* stage that raised: the buffers still allocated at return, the buffers deleted
\* twice, the stages that completed
Outcomes ==
    [ adj \in {"none", "dilate", "erode"}, hasContent \in BOOLEAN, n \in 0..MaxContours,
      raised \in Stages \cup {"none"} |->
        [ leaked |-> LiveAfter(Trace(Executed(PreOps \o TryOps(adj, hasContent, n), {raised}))),
          dbl |-> DoubleDeleted(Trace(Executed(PreOps \o TryOps(adj, hasContent, n), {raised}))),
          passed |-> StagesPassed(Executed(PreOps \o TryOps(adj, hasContent, n), {raised})) ] ]

\* the return of the function when raised is the stage that raised
\*   threw  - the exception left the function (imread is outside the try block)
\*   raised - the stage that raised, "none" when none did
\*   url    - the data URL returned
\*   leaked - buffers still allocated at return; dbl - buffers deleted twice
Finished(canvas, sensitivity, targetWidth, targetHeight, mask, rect, p, raised) ==
    [ threw |-> FALSE, raised |-> raised,
      url |-> IF raised # "none"
              THEN FallbackUrl(canvas)
              ELSE Bitmap(canvas, sensitivity, targetWidth, targetHeight, mask, rect, p),
      passed |-> Outcomes[WeightAdjustment(sensitivity), rect.hasContent, Len(mask), raised].passed,
      leaked |-> Outcomes[WeightAdjustment(sensitivity), rect.hasContent, Len(mask), raised].leaked,
      dbl |-> Outcomes[WeightAdjustment(sensitivity), rect.hasContent, Len(mask), raised].dbl ]

\* lines 573-653, p the placement of the scaled content
Scaled(canvas, sensitivity, targetWidth, targetHeight, fault, mask, rect, p) ==
    Finished(canvas, sensitivity, targetWidth, targetHeight, mask, rect, p,
             RaisedStage(PreOps \o TryOps(WeightAdjustment(sensitivity), rect.hasContent,
                                          Len(mask)),
                         ThrowingStages(rect, p, canvas.width, canvas.height,
                                        targetWidth, targetHeight, fault)))

\* lines 573-653, rect the rectangle of tempRgba that is scaled
Cropped(canvas, sensitivity, targetWidth, targetHeight, fault, mask, rect) ==
    Scaled(canvas, sensitivity, targetWidth, targetHeight, fault, mask, rect,
           Placement(rect.width, rect.height, targetWidth, targetHeight))

\* lines 506-653, mask the refined binary mask of the crop
Segmented(canvas, sensitivity, targetWidth, targetHeight, fault, mask) ==
    Cropped(canvas, sensitivity, targetWidth, targetHeight, fault, mask,
            CropRect(ContentBounds(ContourStats(mask), canvas.width, canvas.height),
                     canvas.width, canvas.height))

\* processSingleSignatureWithOpenCV(sourceCanvas, sensitivity, targetWidth,
\* targetHeight, cv), with fault the stage at which the environment makes
\* the library raise ("none": nowhere, "imread": in cv.imread).
ProcessSingle(canvas, sensitivity, targetWidth, targetHeight, fault) ==
    IF fault = "imread" \/ ImreadThrows(canvas)
    THEN [ threw |-> TRUE, raised |-> "imread", passed |-> {}, url |-> ToDataURL(canvas),
           leaked |-> {}, dbl |-> {} ]
    ELSE Segmented(canvas, sensitivity, targetWidth, targetHeight, fault,
                   RefinedMask(canvas, sensitivity))

-----------------------------------------------------------------------------
(* Runs of processSignatureRegions.                                        *)

NoCanvas == NoPixels

\* caller: "none" (a bare call of the exported function), "local", "ai",
\* "reprocess" (the App handler that awaits the run)
IdleRun ==
    [ pc |-> "idle", caller |-> "none", file |-> "", regions |-> << >>,
      sensitivity |-> 0, outputWidth |-> 0, outputHeight |-> 0, hasCb |-> FALSE,
      i |-> 0, results |-> << >>, raised |-> << >>, crop |-> NoCanvas, log |-> << >>,
      image |-> "", given |-> << >>, queue |-> << >>, newSignatures |-> << >> ]

\* the call up to its first await (line 368): the arguments are bound
StartRun(caller, file, regions, sensitivity, outputWidth, outputHeight, hasCb, image, given, queue, acc) ==
    [ IdleRun EXCEPT !.pc = "loadOpenCV", !.caller = caller, !.file = file,
                     !.regions = regions, !.sensitivity = sensitivity,
                     !.outputWidth = outputWidth, !.outputHeight = outputHeight,
                     !.hasCb = hasCb, !.image = image, !.given = given,
                     !.queue = queue,
                     !.newSignatures = acc ]

\* a validity test that would let regions of width or height 0 through
NegativeRegion(box) == box.width < 0 \/ box.height < 0

\* line 384: the region is skipped
InvalidRegion(box) == box.width <= 0 \/ box.height <= 0

\* lines 417-423
MakeSignature(box, rawUrl, formattedUrl, outputWidth, outputHeight) ==
    [ id |-> box.id, originalDataUrl |-> rawUrl, processedDataUrl |-> formattedUrl,
      width |-> outputWidth, height |-> outputHeight ]

\* { ...signature, sourceImageId, annotation }
Tagged(signature, sourceImageId, annotation) ==
    [ id |-> signature.id, originalDataUrl |-> signature.originalDataUrl,
      processedDataUrl |-> signature.processedDataUrl,
      width |-> signature.width, height |-> signature.height,
      sourceImageId |-> sourceImageId, annotation |-> annotation ]

\* App.tsx 416-431: the reprocess callback's update of the signature list
ReplaceById(prev, newSig, image) ==
    [ k \in 1..Len(prev) |->
        IF prev[k].id = newSig.id /\ prev[k].sourceImageId = image
        THEN Tagged(newSig, image, prev[k].annotation)
        ELSE prev[k] ]

\* the signature list after onProgress(signature, ...) of a run
SignaturesAfterCallback(run, prev, signature) ==
    IF run.caller = "ai" THEN Append(prev, Tagged(signature, run.image, "AI"))
    ELSE IF run.caller = "reprocess" THEN ReplaceById(prev, signature, run.image)
    ELSE prev

\* a run may take a step when it holds the thread or the event loop is idle
CanRun(r) == thread = r \/ thread = 0

\* a loop that would give up the thread between the crop and its processing
ThreadYielded(r) == 0

\* the thread after the crop of a region is extracted: lines 412-415 hold no
\* await, the run goes on to process the crop
ThreadAfterCrop(r) == r

\* the thread after a region is emitted: the loop goes on synchronously
ThreadAfterRegion(r) == r

\* the thread when the promise of a run settles: the continuation of the
\* handler that awaits it runs before any other event
ThreadAtSettle(run, r) == IF run.caller = "none" THEN 0 ELSE r

\* line 368 resumes: window.cv is read, createImageBitmap is awaited
AfterLoadOpenCV(r) ==
    /\ thread = 0
    /\ runs[r].pc = "loadOpenCV"
    /\ runs' = [ runs EXCEPT ![r].pc = "createImageBitmap" ]
    /\ UNCHANGED << thread, heap, doubleFreed, faults, appVars, twice, probe, editor, cvLoader >>

\* lines 371-380: the image is decoded and drawn; a missing 2d context raises
AfterCreateImageBitmap(r) ==
    /\ thread = 0
    /\ runs[r].pc = "createImageBitmap"
    /\ \/ /\ runs' = [ runs EXCEPT ![r].pc = "loop", ![r].i = 1, ![r].results = << >> ]
          /\ thread' = r
          /\ UNCHANGED faults
       \/ /\ faults < MaxFaults
          /\ runs' = [ runs EXCEPT ![r].pc = "threw" ]
          /\ faults' = faults + 1
          /\ thread' = ThreadAtSettle(runs[r], r)
    /\ UNCHANGED << heap, doubleFreed, appVars, twice, probe, editor, cvLoader >>

\* lines 382-412 of one iteration, or line 433 when the list is exhausted
LoopStep(r) ==
    LET run == runs[r] IN
    /\ CanRun(r)
    /\ run.pc = "loop"
    /\ IF run.i > Len(run.regions)
       THEN /\ runs' = [ runs EXCEPT ![r].pc = "returned" ]
            /\ thread' = ThreadAtSettle(run, r)
            /\ UNCHANGED faults
       ELSE IF InvalidRegion(run.regions[run.i])
       THEN /\ runs' = [ runs EXCEPT ![r].i = run.i + 1 ]
            /\ thread' = r
            /\ UNCHANGED faults
       ELSE \/ /\ runs' = [ runs EXCEPT ![r].pc = "region",
                              ![r].crop = ExtractCrop(FileOf(run.file), run.regions[run.i]) ]
               /\ thread' = ThreadAfterCrop(r)
               /\ UNCHANGED faults
            \* line 391: no 2d context for the crop canvas
            \/ /\ faults < MaxFaults
               /\ runs' = [ runs EXCEPT ![r].i = run.i + 1 ]
               /\ faults' = faults + 1
               /\ thread' = r
    /\ UNCHANGED << heap, doubleFreed, appVars, twice, probe, editor, cvLoader >>

\* the faults the environment may inject while a crop is processed: the
\* callback raises, cv.imread raises, or a stage that the call gets to raises
FaultsOf(run, unfaulted) ==
    {"none"} \cup
    (IF faults < MaxFaults
     THEN (IF run.hasCb /\ run.caller = "none" THEN {"callback"} ELSE {})
          \cup (IF unfaulted.threw THEN {} ELSE {"imread"} \cup unfaulted.passed)
     ELSE {})

RegionFaults(run) ==
    FaultsOf(run, ProcessSingle(run.crop, run.sensitivity, run.outputWidth,
                                run.outputHeight, "none"))

\* a callback invocation that would always pass the first signature of the run
ReportFirst(run, signature, pushed) ==
    IF run.hasCb
    THEN Append(run.log, [ signature |-> pushed[1], index |-> Len(pushed) - 1,
                           total |-> Len(run.regions) ])
    ELSE run.log

\* a callback that would be given the loop index of the region
ReportLoopIndex(run, signature, pushed) ==
    IF run.hasCb
    THEN Append(run.log, [ signature |-> signature, index |-> run.i - 1,
                           total |-> Len(run.regions) ])
    ELSE run.log

\* lines 428-430: the log of onProgress invocations
Report(run, signature, pushed) ==
    IF run.hasCb
    THEN Append(run.log, [ signature |-> signature, index |-> Len(pushed) - 1,
                           total |-> Len(run.regions) ])
    ELSE run.log

\* lines 412-430: the crop is processed, the signature pushed and reported.
\* raised records, for each signature, the stage that raised for its region.
RegionProcess(r) ==
    LET run == runs[r] IN
    /\ CanRun(r)
    /\ run.pc = "region"
    /\ \E fault \in RegionFaults(run) :
         LET res == ProcessSingle(run.crop, run.sensitivity, run.outputWidth,
                                  run.outputHeight,
                                  IF fault = "callback" THEN "none" ELSE fault)
             signature == MakeSignature(run.regions[run.i], ToDataURL(run.crop), res.url,
                                        run.outputWidth, run.outputHeight)
             pushed == Append(run.results, signature)
             emitted == [ run EXCEPT !.crop = NoCanvas, !.results = pushed,
                                     !.raised = Append(@, res.raised),
                                     !.log = Report(run, signature, pushed) ]
         IN  /\ faults' = IF fault = "none" THEN faults ELSE faults + 1
             /\ heap' = heap \cup res.leaked
             /\ doubleFreed' = doubleFreed \cup res.dbl
             /\ IF res.threw
                THEN /\ runs' = [ runs EXCEPT ![r].pc = "threw", ![r].crop = NoCanvas ]
                     /\ thread' = ThreadAtSettle(run, r)
                     /\ UNCHANGED appVars
                ELSE IF fault = "callback"
                THEN /\ runs' = [ runs EXCEPT ![r] = [ emitted EXCEPT !.pc = "threw" ] ]
                     /\ thread' = ThreadAtSettle(run, r)
                     /\ UNCHANGED appVars
                ELSE /\ runs' = [ runs EXCEPT ![r] =
                          [ emitted EXCEPT
                              !.pc = "loop", !.i = run.i + 1,
                              !.newSignatures =
                                  IF run.caller = "local"
                                  THEN Append(@, Tagged(signature, run.image, ""))
                                  ELSE @ ] ]
                     /\ thread' = ThreadAfterRegion(r)
                     /\ signatures' = SignaturesAfterCallback(run, signatures, signature)
                     /\ UNCHANGED << status, isRecomputing, uploadedImages, activeImageId,
                                     outputSize, processingMode, aiKey, nextImage, started >>
    /\ UNCHANGED << twice, probe, editor, cvLoader >>

-----------------------------------------------------------------------------
(* Direct calls of processSignatureRegions: the inputs of the exported     *)
(* function, drawn from small sets.                                        *)

Regions ==
    [ good   |-> Box("r1", Px(100), Px(100), Px(300), Px(150), 0),
      zero   |-> Box("r2", Px(400), Px(100), 0, Px(150), 0),
      turned |-> Box("r3", Px(100), Px(100), Px(300), Px(150), 180),
      sliver |-> Box("r4", Px(400), Px(300), 1, Px(50), 0),
      thin   |-> Box("r5", 0, Px(150), Px(1000), Px(1), 0),
      upside |-> Box("r6", Px(10), Px(10), Px(40), 0 - Px(5), 0),
      blank  |-> Box("r7", Px(600), Px(400), Px(50), Px(30), 0) ]

RegionLists ==
    { << >>,
      << Regions.good >>,
      << Regions.good, Regions.zero, Regions.turned >>,
      << Regions.sliver, Regions.good >>,
      << Regions.thin, Regions.upside, Regions.blank >> }

Sensitivities == { SliderMin, DefaultSensitivity, SliderMax }

OutputSizes ==
    { [ width |-> DefaultOutputWidth, height |-> DefaultOutputHeight ],
      [ width |-> 20, height |-> 20 ] }

\* a caller invokes processSignatureRegions(file, regions, sensitivity,
\* outputWidth, outputHeight, onProgress?)
Call ==
    /\ thread = 0
    /\ \A r \in RunIds : runs[r].pc = "idle"
    /\ \E file \in Files, regions \in RegionLists, sensitivity \in Sensitivities,
          size \in OutputSizes, hasCb \in BOOLEAN :
         runs' = [ runs EXCEPT ![1] =
                     StartRun("none", file.id, regions, sensitivity, size.width,
                              size.height, hasCb, "", regions, << >>, << >>) ]
    /\ UNCHANGED << thread, heap, doubleFreed, faults, appVars, twice, probe, editor, cvLoader >>

\* the caller takes the settled promise
Consume(r) ==
    /\ thread = 0
    /\ runs[r].caller = "none"
    /\ runs[r].pc \in {"returned", "threw"}
    /\ runs' = [ runs EXCEPT ![r] = IdleRun ]
    /\ UNCHANGED << thread, heap, doubleFreed, faults, appVars, twice, probe, editor, cvLoader >>

NoTwice == [ phase |-> "off" ]

\* no pure step is being evaluated
NoProbe == [ fn |-> "none" ]

\* the ImageEditor is not mounted
NoEditor == [ mode |-> "UNMOUNTED" ]

\* null for a point and for a box of the editor
NoPoint == [ x |-> -1, y |-> -1 ]
NoBox == [ id |-> "" ]

\* crypto.randomUUID(): an id no box of the list carries
FreshId(boxes) ==
    "b" \o ToString(CHOOSE n \in 1..(Len(boxes) + 1) :
                        /\ \A k \in 1..Len(boxes) : boxes[k].id # "b" \o ToString(n)
                        /\ \A j \in 1..(n - 1) : \E k \in 1..Len(boxes) : boxes[k].id = "b" \o ToString(j))

\* the harness variables of the other specifications
\* loadOpenCV is not under study: its state is left out
NoLoader == [ cvPromise |-> -1 ]

Unused == probe = NoProbe /\ editor = NoEditor /\ cvLoader = NoLoader

InitApp ==
    /\ status = "IDLE"
    /\ isRecomputing = FALSE
    /\ signatures = << >>
    /\ uploadedImages = << >>
    /\ activeImageId = ""
    /\ outputSize = [ width |-> DefaultOutputWidth, height |-> DefaultOutputHeight ]
    /\ processingMode = "local"
    /\ aiKey = FALSE
    /\ nextImage = 0
    /\ started = 0

Init ==
    /\ runs = [ r \in RunIds |-> IdleRun ]
    /\ thread = 0
    /\ heap = {}
    /\ doubleFreed = {}
    /\ faults = 0
    /\ twice = NoTwice
    /\ Unused
    /\ InitApp

Next ==
    \/ Call
    \/ \E r \in RunIds : AfterLoadOpenCV(r)
    \/ \E r \in RunIds : AfterCreateImageBitmap(r)
    \/ \E r \in RunIds : LoopStep(r)
    \/ \E r \in RunIds : RegionProcess(r)
    \/ \E r \in RunIds : Consume(r)

Spec == Init /\ [][Next]_vars

-----------------------------------------------------------------------------
(* Properties of processSignatureRegions, checked under Spec.              *)

\* the position of the region with this id in a region list
Pos(regions, id) == CHOOSE j \in 1..Len(regions) : regions[j].id = id

\* the ids of the regions of a list that line 384 lets through
ValidIds(regions) ==
    LET valid == SelectSeq(regions, LAMBDA b : b.width > 0 /\ b.height > 0)
    IN  [ k \in 1..Len(valid) |-> valid[k].id ]

ResultIds(run) == [ k \in 1..Len(run.results) |-> run.results[k].id ]

\* C1: every emitted signature carries a processed bitmap whose pixel
\* dimensions are the requested output size (no fault injected: the library
\* raises only where its own argument checks do).
C1_BitmapHasOutputSize ==
    faults = 0 =>
        \A r \in RunIds : \A k \in 1..Len(runs[r].results) :
            /\ runs[r].results[k].processedDataUrl.w = runs[r].outputWidth
            /\ runs[r].results[k].processedDataUrl.h = runs[r].outputHeight
            /\ runs[r].results[k].width = runs[r].outputWidth
            /\ runs[r].results[k].height = runs[r].outputHeight

\* C2: when a stage of the try block raises while a region is processed,
\* the step still appends a signature for that region whose processed
\* bitmap is the raw crop, and (unless the progress callback raises in the
\* same step) the run is back in its loop at the next region.
C2_StageFailureFallsBack ==
    [][ \A r \in RunIds :
          LET a == runs[r]
              b == runs'[r]
          IN  ( /\ a.pc = "region"
                /\ Len(b.raised) = Len(a.raised) + 1
                /\ b.raised[Len(b.raised)] # "none" )
              => /\ Len(b.results) = Len(a.results) + 1
                 /\ b.results[Len(b.results)].id = a.regions[a.i].id
                 /\ b.results[Len(b.results)].processedDataUrl = ToDataURL(a.crop)
                 /\ b.results[Len(b.results)].originalDataUrl = ToDataURL(a.crop)
                 /\ \/ b.pc = "threw" /\ a.hasCb
                    \/ b.pc = "loop" /\ b.i = a.i + 1 /\ b.regions = a.regions
      ]_vars

\* C2 happens: a run returned after a stage raised for its first processed
\* region and a later region was processed without a failure.
C2_Witness ==
    \E r \in RunIds :
        /\ runs[r].pc = "returned"
        /\ Len(runs[r].raised) >= 2
        /\ runs[r].raised[1] \in Stages
        /\ runs[r].raised[2] = "none"
        /\ runs[r].results[1].processedDataUrl = runs[r].results[1].originalDataUrl
        /\ runs[r].results[2].processedDataUrl.w = runs[r].outputWidth

\* C3: a run never ends with an exception, and a returned run holds exactly
\* one signature for every region with width > 0 and height > 0.
C3_RunNeverFatal ==
    \A r \in RunIds :
        /\ runs[r].pc # "threw"
        /\ runs[r].pc = "returned" => ResultIds(runs[r]) = ValidIds(runs[r].regions)

\* C4: no native buffer allocated while a region was processed is still
\* allocated once the call for that region is over.
C4_BuffersReleased == heap = {}

\* C5: with a progress callback, the invocations so far are exactly the
\* signatures pushed so far (one each, same order, also while the next
\* region is being processed), their ids are ids of distinct regions in
\* input order, all before the region the loop is at; without a failure
\* they are the ids of all valid regions before it.
C5_CallbackStreamsResults ==
    \A r \in RunIds :
        LET run == runs[r] IN
        run.hasCb =>
            /\ Len(run.log) = Len(run.results)
            /\ \A k \in 1..Len(run.log) : run.log[k].signature = run.results[k]
            /\ \A k \in 1..Len(run.results) :
                 /\ \E j \in 1..Len(run.regions) : run.regions[j].id = run.results[k].id
                 /\ run.pc \in {"loop", "region"} =>
                        Pos(run.regions, run.results[k].id) < run.i
                 /\ \A l \in (k + 1)..Len(run.results) :
                        Pos(run.regions, run.results[k].id)
                            < Pos(run.regions, run.results[l].id)
            /\ (faults = 0 /\ run.pc \in {"loop", "region"}) =>
                   ResultIds(run) = ValidIds(SubSeq(run.regions, 1, run.i - 1))
            /\ (faults = 0 /\ run.pc = "returned") =>
                   ResultIds(run) = ValidIds(run.regions)

\* C5 happens: the second region of a run with a callback is being processed
\* and the first has already been reported.
C5_Witness ==
    \E r \in RunIds :
        /\ runs[r].hasCb
        /\ runs[r].pc = "region"
        /\ Len(runs[r].log) >= 1
        /\ runs[r].log[1].signature.id = runs[r].regions[1].id

\* C6: the step of the loop at a region with width <= 0 or height <= 0 only
\* moves on to the next region: no signature, no callback invocation, no
\* exception.
C6_InvalidRegionSkipped ==
    [][ \A r \in RunIds :
          LET a == runs[r]
              b == runs'[r]
          IN  ( /\ a.pc = "loop"
                /\ a.i <= Len(a.regions)
                /\ (a.regions[a.i].width <= 0 \/ a.regions[a.i].height <= 0)
                /\ b # a )
              => b = [ a EXCEPT !.i = a.i + 1 ]
      ]_vars

\* C6 happens: a run returned whose list holds an invalid region followed by
\* a region that was processed.
C6_Witness ==
    \E r \in RunIds :
        /\ runs[r].pc = "returned"
        /\ \E j \in 1..(Len(runs[r].regions) - 1) :
             /\ runs[r].regions[j].width <= 0 \/ runs[r].regions[j].height <= 0
             /\ \E k \in 1..Len(runs[r].results) :
                    runs[r].results[k].id = runs[r].regions[j + 1].id
             /\ \A k \in 1..Len(runs[r].results) :
                    runs[r].results[k].id # runs[r].regions[j].id

\* C17: when no contour exceeds the area threshold (also when the mask has
\* no contour at all) the crop used is the full mask extent and the region
\* yields a normal bitmap of the output size (no fault injected).
C17_NoContentStillProcessed ==
    faults = 0 =>
        \A r \in RunIds : \A k \in 1..Len(runs[r].results) :
            LET run == runs[r]
                sig == run.results[k]
                canvas == ExtractCrop(FileOf(run.file), run.regions[Pos(run.regions, sig.id)])
                stats == ContourStats(RefinedMask(canvas, run.sensitivity))
            IN  ~ContentBounds(stats, canvas.width, canvas.height).hasContent =>
                    /\ sig.processedDataUrl # ToDataURL(canvas)
                    /\ sig.processedDataUrl.w = run.outputWidth
                    /\ sig.processedDataUrl.h = run.outputHeight
                    /\ sig.processedDataUrl.px.crop.x = 0
                    /\ sig.processedDataUrl.px.crop.y = 0
                    /\ sig.processedDataUrl.px.crop.width = canvas.width
                    /\ sig.processedDataUrl.px.crop.height = canvas.height

-----------------------------------------------------------------------------
(* The pipeline run twice on the same inputs.  The second call starts in   *)
(* whatever state the first one left (native heap included); the           *)
(* environment injects no fault into either.                               *)

\* what the caller of a run observes
Outcome(run) ==
    [ pc |-> run.pc,
      results |-> IF run.pc = "returned" THEN run.results ELSE << >>,
      reported |-> [ k \in 1..Len(run.log) |-> run.log[k].signature ] ]

InitTwice ==
    /\ runs = [ r \in RunIds |-> IdleRun ]
    /\ thread = 0
    /\ heap = {}
    /\ doubleFreed = {}
    /\ faults = MaxFaults
    /\ \E file \in Files, regions \in RegionLists, sensitivity \in Sensitivities,
          size \in OutputSizes, hasCb \in BOOLEAN :
         twice = [ phase |-> "first", file |-> file.id, regions |-> regions,
                   sensitivity |-> sensitivity, size |-> size, hasCb |-> hasCb,
                   first |-> Outcome(IdleRun), second |-> Outcome(IdleRun) ]
    /\ Unused
    /\ InitApp

\* the caller invokes processSignatureRegions with the chosen inputs
CallAgain ==
    /\ thread = 0
    /\ twice.phase \in {"first", "second"}
    /\ runs[1].pc = "idle"
    /\ runs' = [ runs EXCEPT ![1] =
                   StartRun("none", twice.file, twice.regions, twice.sensitivity,
                            twice.size.width, twice.size.height, twice.hasCb, "",
                            twice.regions, << >>, << >>) ]
    /\ twice' = [ twice EXCEPT !.phase = IF @ = "first" THEN "running1" ELSE "running2" ]
    /\ UNCHANGED << thread, heap, doubleFreed, faults, appVars, probe, editor, cvLoader >>

\* the caller takes the settled promise and keeps what it observed
Observe ==
    /\ thread = 0
    /\ twice.phase \in {"running1", "running2"}
    /\ runs[1].pc \in {"returned", "threw"}
    /\ runs' = [ runs EXCEPT ![1] = IdleRun ]
    /\ twice' = IF twice.phase = "running1"
                THEN [ twice EXCEPT !.phase = "second", !.first = Outcome(runs[1]) ]
                ELSE [ twice EXCEPT !.phase = "done", !.second = Outcome(runs[1]) ]
    /\ UNCHANGED << thread, heap, doubleFreed, faults, appVars, probe, editor, cvLoader >>

NextTwice ==
    \/ CallAgain
    \/ \E r \in RunIds : AfterLoadOpenCV(r)
    \/ \E r \in RunIds : AfterCreateImageBitmap(r)
    \/ \E r \in RunIds : LoopStep(r)
    \/ \E r \in RunIds : RegionProcess(r)
    \/ Observe

SpecTwice == InitTwice /\ [][NextTwice]_vars

-----------------------------------------------------------------------------
(* The application: App.tsx.  Handlers run when no run holds the thread.   *)

\* a recommendSensitivity that would take the balanced row for a clean scan
RecommendedBalanced(edgePixels, totalPixels, brightness) ==
    Max(5, Min(IF brightness > 150 THEN 22 ELSE IF brightness < 100 THEN 15 ELSE 18, 35))

\* lines 230-255 of recommendSensitivity: the decision table on
\* noiseDensity = edgePixels / totalPixels and brightness, then the clamp
Recommended(edgePixels, totalPixels, brightness) ==
    LET recommended ==
          IF 100 * edgePixels > 15 * totalPixels
          THEN (IF brightness > 150 THEN 12 ELSE IF brightness < 100 THEN 8 ELSE 10)
          ELSE IF 100 * edgePixels < 5 * totalPixels
          THEN (IF brightness > 150 THEN 28 ELSE IF brightness < 100 THEN 20 ELSE 25)
          ELSE (IF brightness > 150 THEN 22 ELSE IF brightness < 100 THEN 15 ELSE 18)
    IN  Max(5, Min(recommended, 35))

RECURSIVE SumSeq(_)
SumSeq(q) == IF q = << >> THEN 0 ELSE q[1] + SumSeq(Tail(q))

\* cv.countNonZero(edges): Canny marks the outline of every ink rectangle
EdgePixels(file) ==
    SumSeq([ k \in 1..Len(file.ink) |-> 2 * (file.ink[k].width + file.ink[k].height) ])

\* recommendSensitivity(file)
RecommendSensitivity(file) ==
    Recommended(EdgePixels(file), file.width * file.height, file.brightness)

\* the files the user uploads
UploadedFiles == { FileA }

\* analysis.recommendedSensitivity: the number of the model's answer (the
\* prompt asks for 0 to 100), 20 when the answer holds none
AIValues == { DefaultSensitivity, 80 }

\* a box drawn on an image: crypto.randomUUID() gives every box its own id
OwnBox(box, img) == [ box EXCEPT !.id = @ \o "/" \o img.id ]

\* the region lists the editor hands over for an image
EditorBoxes(img) ==
    { << >>, << OwnBox(Regions.good, img), OwnBox(Regions.turned, img) >>,
      << OwnBox(Regions.sliver, img) >> }

ImageIndex(images, id) == CHOOSE k \in 1..Len(images) : images[k].id = id

\* const activeImage = uploadedImages.find(img => img.id === activeImageId)
HasActive == \E k \in 1..Len(uploadedImages) : uploadedImages[k].id = activeImageId

ActiveImage == uploadedImages[ImageIndex(uploadedImages, activeImageId)]

\* updateImageBoxes(id, boxes)
UpdateImageBoxes(images, id, boxes) ==
    [ k \in 1..Len(images) |->
        IF images[k].id = id THEN [ images[k] EXCEPT !.boxes = boxes ] ELSE images[k] ]

\* prev.map(img => img.id === id ? { ...img, sensitivity } : img)
UpdateImageSensitivity(images, id, sensitivity) ==
    [ k \in 1..Len(images) |->
        IF images[k].id = id THEN [ images[k] EXCEPT !.sensitivity = sensitivity ]
        ELSE images[k] ]

FreeSlots == { r \in RunIds : runs[r].pc = "idle" }

\* a region list that would be passed on as it is
BoxesAsGiven(img, boxes) == boxes

\* lines 258-268, 356-362, 395-404: the whole image stands in for an empty list
BoxesToProcess(img, boxes) == IF boxes = << >> THEN << FullImageBox(img) >> ELSE boxes

\* lines 336-363: the calls the local batch will make, one per image that is
\* not skipped; an image without boxes is skipped when there are several
LocalJobs(images) ==
    LET isMultiImage == Len(images) > 1
        kept == SelectSeq(images, LAMBDA img : ~(img.boxes = << >> /\ isMultiImage))
    IN  [ k \in 1..Len(kept) |->
            [ image |-> kept[k].id, file |-> kept[k].file, given |-> kept[k].boxes,
              regions |-> BoxesToProcess(kept[k], kept[k].boxes),
              sensitivity |-> kept[k].sensitivity ] ]

\* lines 365-378: processSignatureRegions is called for the next image
StartJob(job, rest, width, height, acc) ==
    StartRun("local", job.file, job.regions, job.sensitivity, width, height, TRUE,
             job.image, job.given, rest, acc)

\* addFiles for one file (the image ids are unique)
AddFiles ==
    /\ thread = 0
    /\ status \in {"IDLE", "EDITING"}
    /\ nextImage < MaxImages
    /\ \E file \in UploadedFiles :
         LET id == IF nextImage = 0 THEN "u1" ELSE IF nextImage = 1 THEN "u2" ELSE "u3"
         IN  /\ uploadedImages' =
                    Append(uploadedImages,
                           [ id |-> id, file |-> file.id, width |-> file.width,
                             height |-> file.height, boxes |-> << >>,
                             sensitivity |-> RecommendSensitivity(file) ])
             /\ IF status = "IDLE"
                THEN status' = "EDITING" /\ activeImageId' = id
                ELSE IF activeImageId = ""
                THEN activeImageId' = id /\ UNCHANGED status
                ELSE UNCHANGED << status, activeImageId >>
    /\ nextImage' = nextImage + 1
    /\ UNCHANGED << runs, thread, heap, doubleFreed, faults, isRecomputing, signatures,
                    outputSize, processingMode, aiKey, started, twice, probe, editor, cvLoader >>

\* line 1037: an API key is entered in the AI settings
SaveAIConfig ==
    /\ thread = 0
    /\ ~aiKey
    /\ aiKey' = TRUE
    /\ UNCHANGED << runs, thread, heap, doubleFreed, faults, status, isRecomputing,
                    signatures, uploadedImages, activeImageId, outputSize,
                    processingMode, nextImage, started, twice, probe, editor, cvLoader >>

\* handleProcessFromEditor(boxes, 'local') up to its first await
HandleProcessLocal ==
    /\ thread = 0
    /\ started < MaxCalls
    /\ started' = started + 1
    /\ status = "EDITING"
    /\ HasActive
    /\ FreeSlots # {}
    /\ \E boxes \in EditorBoxes(ActiveImage) :
         LET imagesToProcess == UpdateImageBoxes(uploadedImages, activeImageId, boxes)
             jobs == LocalJobs(imagesToProcess)
         IN  /\ uploadedImages' = imagesToProcess
             /\ processingMode' = "local"
             /\ signatures' = << >>
             /\ IF jobs = << >>
                THEN /\ status' = "COMPLETED"
                     /\ UNCHANGED runs
                ELSE /\ status' = "PROCESSING"
                     /\ runs' = [ runs EXCEPT ![SetMin(FreeSlots)] =
                                    StartJob(jobs[1], Tail(jobs), outputSize.width,
                                             outputSize.height, << >>) ]
    /\ UNCHANGED << thread, heap, doubleFreed, faults, isRecomputing, activeImageId,
                    outputSize, aiKey, nextImage, twice, probe, editor, cvLoader >>

\* lines 365-388 after a call of the batch settled: the next image, the end
\* of the batch, or the catch block
LocalContinue(r) ==
    LET run == runs[r] IN
    /\ CanRun(r)
    /\ run.caller = "local"
    /\ run.pc \in {"returned", "threw"}
    /\ IF run.pc = "threw"
       THEN /\ status' = "ERROR"
            /\ runs' = [ runs EXCEPT ![r] = IdleRun ]
            /\ UNCHANGED signatures
       ELSE IF run.queue # << >>
       THEN /\ runs' = [ runs EXCEPT ![r] =
                           StartJob(run.queue[1], Tail(run.queue), run.outputWidth,
                                    run.outputHeight, run.newSignatures) ]
            /\ UNCHANGED << status, signatures >>
       ELSE /\ signatures' = run.newSignatures
            /\ status' = "COMPLETED"
            /\ runs' = [ runs EXCEPT ![r] = IdleRun ]
    /\ thread' = 0
    /\ UNCHANGED << heap, doubleFreed, faults, isRecomputing, uploadedImages,
                    activeImageId, outputSize, processingMode, aiKey, nextImage, started, twice, probe, editor, cvLoader >>

\* handleProcessFromEditor(boxes, 'ai') up to its first await
HandleProcessWithAI ==
    /\ thread = 0
    /\ started < MaxCalls
    /\ started' = started + 1
    /\ status = "EDITING"
    /\ HasActive
    /\ FreeSlots # {}
    /\ \E boxes \in EditorBoxes(ActiveImage) :
         /\ uploadedImages' = UpdateImageBoxes(uploadedImages, activeImageId, boxes)
         /\ processingMode' = "ai"
         /\ IF ~aiKey
            THEN UNCHANGED << status, signatures, runs >>
            ELSE /\ status' = "PROCESSING"
                 /\ signatures' = SelectSeq(signatures,
                                            LAMBDA sig : sig.sourceImageId # activeImageId)
                 /\ runs' = [ runs EXCEPT ![SetMin(FreeSlots)] =
                                [ StartRun("ai", ActiveImage.file,
                                           BoxesToProcess(ActiveImage, boxes), 0,
                                           outputSize.width, outputSize.height, TRUE,
                                           activeImageId, boxes, << >>, << >>)
                                  EXCEPT !.pc = "aiAnalysis" ] ]
    /\ UNCHANGED << thread, heap, doubleFreed, faults, isRecomputing, activeImageId,
                    outputSize, aiKey, nextImage, twice, probe, editor, cvLoader >>

\* lines 285-318: the analysis answers and processSignatureRegions is called
\* with its value; or the request fails (catch block); or there is no canvas
\* context or blob and nothing is processed
AfterAnalysis(r) ==
    LET run == runs[r] IN
    /\ thread = 0
    /\ run.pc = "aiAnalysis"
    /\ \/ \E value \in AIValues :
            /\ uploadedImages' =
                 UpdateImageSensitivity(UpdateImageBoxes(uploadedImages, run.image, run.given),
                                        run.image, value)
            /\ runs' = [ runs EXCEPT ![r].pc = "loadOpenCV", ![r].sensitivity = value ]
            /\ UNCHANGED status
       \/ /\ status' \in {"ERROR", "COMPLETED"}
          /\ runs' = [ runs EXCEPT ![r] = IdleRun ]
          /\ UNCHANGED uploadedImages
    /\ UNCHANGED << thread, heap, doubleFreed, faults, isRecomputing, signatures, activeImageId,
                    outputSize, processingMode, aiKey, nextImage, started, twice, probe, editor, cvLoader >>

\* lines 321-326 after the run of the AI mode settled
AIFinish(r) ==
    /\ CanRun(r)
    /\ runs[r].caller = "ai"
    /\ runs[r].pc \in {"returned", "threw"}
    /\ status' = IF runs[r].pc = "returned" THEN "COMPLETED" ELSE "ERROR"
    /\ runs' = [ runs EXCEPT ![r] = IdleRun ]
    /\ thread' = 0
    /\ UNCHANGED << heap, doubleFreed, faults, isRecomputing, signatures, uploadedImages,
                    activeImageId, outputSize, processingMode, aiKey, nextImage, started, twice, probe, editor, cvLoader >>

\* reProcessSignatures(newSensitivity, newWidth, newHeight) up to its first await
ReProcessSignatures(newSensitivity, newWidth, newHeight) ==
    /\ isRecomputing' = TRUE
    /\ runs' = [ runs EXCEPT ![SetMin(FreeSlots)] =
                   StartRun("reprocess", ActiveImage.file,
                            BoxesToProcess(ActiveImage, ActiveImage.boxes), newSensitivity,
                            newWidth, newHeight, TRUE, activeImageId, ActiveImage.boxes,
                            << >>, << >>) ]

\* lines 434-438 after the run of a reprocess settled
ReprocessFinish(r) ==
    /\ CanRun(r)
    /\ runs[r].caller = "reprocess"
    /\ runs[r].pc \in {"returned", "threw"}
    /\ isRecomputing' = FALSE
    /\ runs' = [ runs EXCEPT ![r] = IdleRun ]
    /\ thread' = 0
    /\ UNCHANGED << heap, doubleFreed, faults, status, signatures, uploadedImages,
                    activeImageId, outputSize, processingMode, aiKey, nextImage, started, twice, probe, editor, cvLoader >>

\* handleSensitivityChange: the slider (shown when COMPLETED, hidden in AI
\* mode) is moved to val
HandleSensitivityChange ==
    /\ thread = 0
    /\ started < MaxCalls
    /\ started' = started + 1
    /\ status = "COMPLETED"
    /\ processingMode # "ai"
    /\ HasActive
    /\ FreeSlots # {}
    /\ \E val \in {SliderMin, SliderMax} :
         /\ val # ActiveImage.sensitivity
         /\ uploadedImages' = UpdateImageSensitivity(uploadedImages, activeImageId, val)
         /\ ReProcessSignatures(val, outputSize.width, outputSize.height)
    /\ UNCHANGED << thread, heap, doubleFreed, faults, status, signatures, activeImageId,
                    outputSize, processingMode, aiKey, nextImage, twice, probe, editor, cvLoader >>

\* handleOutputSizeBlur
HandleOutputSizeBlur ==
    /\ thread = 0
    /\ started < MaxCalls
    /\ started' = started + 1
    /\ status = "COMPLETED"
    /\ HasActive
    /\ FreeSlots # {}
    /\ ReProcessSignatures(ActiveImage.sensitivity, outputSize.width, outputSize.height)
    /\ UNCHANGED << thread, heap, doubleFreed, faults, status, signatures, uploadedImages,
                    activeImageId, outputSize, processingMode, aiKey, nextImage, twice, probe, editor, cvLoader >>

\* handleUpdateAnnotation(id, text) for the first signature shown
HandleUpdateAnnotation ==
    /\ thread = 0
    /\ status = "COMPLETED"
    /\ signatures # << >>
    /\ signatures[1].annotation # "note"
    /\ signatures' = [ k \in 1..Len(signatures) |->
                         IF signatures[k].id = signatures[1].id
                         THEN [ signatures[k] EXCEPT !.annotation = "note" ]
                         ELSE signatures[k] ]
    /\ UNCHANGED << runs, thread, heap, doubleFreed, faults, status, isRecomputing,
                    uploadedImages, activeImageId, outputSize, processingMode, aiKey,
                    nextImage, started, twice, probe, editor, cvLoader >>

\* handleReset
HandleReset ==
    /\ thread = 0
    /\ status # "IDLE"
    /\ status' = "IDLE"
    /\ signatures' = << >>
    /\ uploadedImages' = << >>
    /\ activeImageId' = ""
    /\ isRecomputing' = FALSE
    /\ UNCHANGED << runs, thread, heap, doubleFreed, faults, outputSize, processingMode,
                    aiKey, nextImage, started, twice, probe, editor, cvLoader >>

\* handleBackToEditor
HandleBackToEditor ==
    /\ thread = 0
    /\ status = "COMPLETED"
    /\ status' = "EDITING"
    /\ UNCHANGED << runs, thread, heap, doubleFreed, faults, isRecomputing, signatures,
                    uploadedImages, activeImageId, outputSize, processingMode, aiKey,
                    nextImage, started, twice, probe, editor, cvLoader >>

NextApp ==
    \/ AddFiles
    \/ SaveAIConfig
    \/ HandleProcessLocal
    \/ HandleProcessWithAI
    \/ HandleSensitivityChange
    \/ HandleOutputSizeBlur
    \/ HandleUpdateAnnotation
    \/ HandleReset
    \/ HandleBackToEditor
    \/ \E r \in RunIds : AfterAnalysis(r)
    \/ \E r \in RunIds : AfterLoadOpenCV(r)
    \/ \E r \in RunIds : AfterCreateImageBitmap(r)
    \/ \E r \in RunIds : LoopStep(r)
    \/ \E r \in RunIds : RegionProcess(r)
    \/ \E r \in RunIds : LocalContinue(r)
    \/ \E r \in RunIds : AIFinish(r)
    \/ \E r \in RunIds : ReprocessFinish(r)

\* the application after mount; the browser and the library do not fail on
\* their own here (a call raises only where its arguments make it raise)
InitMounted ==
    /\ runs = [ r \in RunIds |-> IdleRun ]
    /\ thread = 0
    /\ heap = {}
    /\ doubleFreed = {}
    /\ faults = MaxFaults
    /\ twice = NoTwice
    /\ Unused
    /\ InitApp

SpecApp == InitMounted /\ [][NextApp]_vars

-----------------------------------------------------------------------------
(* Properties of the application, checked under SpecApp.                   *)

\* the runs the application has started and not yet taken the result of
AppRuns == { r \in RunIds : runs[r].caller # "none" /\ runs[r].pc # "idle" }

\* the region covering the whole source image of a run
WholeImage(run) ==
    [ id |-> "full-image-" \o run.image, x |-> 0, y |-> 0,
      width |-> Px(FileOf(run.file).width), height |-> Px(FileOf(run.file).height),
      rotation |-> 0 ]

\* C7: at no instant are two regions in the middle of processing, also when
\* several runs are pending at once.
C7_OneRegionAtATime ==
    Cardinality({ r \in RunIds : runs[r].pc = "region" }) <= 1

\* C7 happens: a region of one run is being processed while another run,
\* started before the first finished, is pending.
C7_Witness ==
    \E r1, r2 \in RunIds :
        /\ r1 # r2
        /\ runs[r1].pc = "region"
        /\ runs[r2].pc \in {"loadOpenCV", "createImageBitmap"}
        /\ runs[r1].caller = "reprocess"
        /\ runs[r2].caller = "reprocess"

C10_SensitivityInRange ==
    \A r \in AppRuns :
        runs[r].pc # "aiAnalysis" => runs[r].sensitivity \in SliderMin..SliderMax

\* C16: a reprocessing run replaces signatures by id and changes nothing
\* else.  Each callback of the run leaves the length, the ids, the order,
\* the source images and the annotations of the list as they are, replaces
\* the signatures of the run's image that carry the new signature's id by
\* it, and leaves every other signature unchanged; the other steps of the
\* run do not touch the list; when the run has returned, every signature of
\* its image is the one the run computed for that id.
C16_ReplacedById ==
    [][ \A r \in RunIds :
          (runs[r].caller = "reprocess" /\ runs[r].pc # "idle" /\ runs'[r] # runs[r]) =>
            LET a == runs[r]
                b == runs'[r]
            IN  /\ IF Len(b.results) = Len(a.results) + 1
                   THEN LET new == b.results[Len(b.results)]
                        IN  /\ Len(signatures') = Len(signatures)
                            /\ \A k \in 1..Len(signatures) :
                                 IF /\ signatures[k].id = new.id
                                    /\ signatures[k].sourceImageId = a.image
                                 THEN signatures'[k] =
                                        [ id |-> new.id,
                                          originalDataUrl |-> new.originalDataUrl,
                                          processedDataUrl |-> new.processedDataUrl,
                                          width |-> new.width, height |-> new.height,
                                          sourceImageId |-> a.image,
                                          annotation |-> signatures[k].annotation ]
                                 ELSE signatures'[k] = signatures[k]
                   ELSE signatures' = signatures
                /\ b.pc = "returned" =>
                     \A k \in 1..Len(signatures') :
                        signatures'[k].sourceImageId = a.image =>
                          \E j \in 1..Len(b.results) :
                             /\ b.results[j].id = signatures'[k].id
                             /\ b.results[j].processedDataUrl = signatures'[k].processedDataUrl
                             /\ b.results[j].width = signatures'[k].width
                             /\ b.results[j].height = signatures'[k].height
      ]_vars

-----------------------------------------------------------------------------
(* The pure steps of the pipeline, each evaluated on inputs drawn from a   *)
(* bounded set: probe holds the inputs, then the result.                   *)

\* brightness values on both sides of every threshold of the code
Brightnesses == { 0, 89, 90, 99, 100, 101, 149, 150, 151, 160, 161, 255 }

\* the pixel count of the analysed image and the edge counts tried on it
TotalPixels == 100 * SubPixel
EdgeCounts == { (n * TotalPixels) \div 100 : n \in {0, 4, 5, 6, 14, 15, 16, 100} }
                  \cup { (5 * TotalPixels) \div 100 - 1, (15 * TotalPixels) \div 100 + 1 }

\* a probe touches nothing else
PureFrame == UNCHANGED << runs, thread, heap, doubleFreed, faults, appVars, twice, editor, cvLoader >>

RecommendInputs ==
    { [ fn |-> "recommendSensitivity", done |-> FALSE, edgePixels |-> e,
        totalPixels |-> TotalPixels, brightness |-> b, out |-> 0 ] :
      e \in EdgeCounts, b \in Brightnesses }

ApplyRecommend ==
    /\ probe.fn = "recommendSensitivity"
    /\ ~probe.done
    /\ probe' = [ probe EXCEPT !.done = TRUE,
                    !.out = Recommended(probe.edgePixels, probe.totalPixels, probe.brightness) ]
    /\ PureFrame

\* the sizes of the rectangle handed to cv.resize, and the output sizes
CropSizes == { 1, 2, 3, 7, 30, 101, 300, 1000 }
PlacementSizes ==
    OutputSizes \cup { [ width |-> 21, height |-> 21 ], [ width |-> 100, height |-> 51 ],
                       [ width |-> 451, height |-> 225 ], [ width |-> 33, height |-> 500 ] }

PlacementInputs ==
    { [ fn |-> "placement", done |-> FALSE, cropCols |-> c, cropRows |-> r,
        targetWidth |-> t.width, targetHeight |-> t.height, out |-> 0 ] :
      c \in CropSizes, r \in CropSizes, t \in PlacementSizes }

ApplyPlacement ==
    /\ probe.fn = "placement"
    /\ ~probe.done
    /\ probe' = [ probe EXCEPT !.done = TRUE,
                    !.out = Placement(probe.cropCols, probe.cropRows,
                                      probe.targetWidth, probe.targetHeight) ]
    /\ PureFrame

\* the mask of a crop and the content boxes inside it: edges at the mask
\* border, within the blur pad of it, and away from it
MaskCols == MaskSide + 6
MaskRows == MaskSide
EdgesIn(n) == { 0, 1, blurPad - 1, blurPad, blurPad + 1, 12, n - blurPad - 1, n - blurPad,
                n - 1, n }
ContentBoxes ==
    { [ hasContent |-> TRUE, minX |-> x0, maxX |-> x1, minY |-> y0, maxY |-> y1 ] :
      x0 \in {0, 1, blurPad, 12}, x1 \in EdgesIn(MaskCols) \ {0},
      y0 \in {0, blurPad - 1, 12}, y1 \in EdgesIn(MaskRows) \ {0} }

CropRectInputs ==
    { [ fn |-> "cropRect", done |-> FALSE, cols |-> MaskCols, rows |-> MaskRows,
        b |-> b, out |-> 0 ] :
      b \in { c \in ContentBoxes :
                 \* the box of a contour whose area exceeds 20
                 /\ c.minX < c.maxX /\ c.minY < c.maxY
                 /\ (c.maxX - c.minX - 1) * (c.maxY - c.minY - 1) > 20 } }

ApplyCropRect ==
    /\ probe.fn = "cropRect"
    /\ ~probe.done
    /\ probe' = [ probe EXCEPT !.done = TRUE,
                    !.out = CropRect(probe.b, probe.cols, probe.rows) ]
    /\ PureFrame

\* contourStats of a refined mask: one blob and up to MaxContours specks,
\* the blob at any position of the list; a contour's area is at most that of
\* the polygon through the centres of its bounding rectangle's border pixels
BlobRect == [ x |-> 3 * blurPad, y |-> 2 * blurPad, width |-> 3 * MaskCols, height |-> 2 * MaskRows ]
BlobAreas == { 16, 20, 21, 99, 2400, (BlobRect.width - 1) * (BlobRect.height - 1) }
SpeckRects ==
    { [ x |-> 0, y |-> 0, width |-> 8, height |-> 8 ],
      [ x |-> BlobRect.x + 5, y |-> BlobRect.y + BlobRect.height + 3, width |-> 8, height |-> 8 ],
      [ x |-> BlobRect.x + 2, y |-> BlobRect.y + 2, width |-> 3, height |-> 3 ] }
Specks ==
    { sp \in [ area : { 0, 4, 20, 23, 24, 46 }, rect : SpeckRects ] :
        sp.area <= (sp.rect.width - 1) * (sp.rect.height - 1) }
SpeckLists == UNION { [ 1..n -> Specks ] : n \in 0..MaxContours }

InsertAt(q, k, e) == SubSeq(q, 1, k - 1) \o << e >> \o SubSeq(q, k, Len(q))

ContentBoundsInputs ==
    { [ fn |-> "contentBounds", done |-> FALSE, cols |-> 4 * MaskCols, rows |-> 4 * MaskRows,
        blob |-> IF last THEN Len(q) + 1 ELSE 1,
        stats |-> InsertAt(q, IF last THEN Len(q) + 1 ELSE 1, [ area |-> a, rect |-> BlobRect ]),
        out |-> 0 ] :
      a \in BlobAreas, q \in SpeckLists, last \in BOOLEAN }

ApplyContentBounds ==
    /\ probe.fn = "contentBounds"
    /\ ~probe.done
    /\ probe' = [ probe EXCEPT !.done = TRUE,
                    !.out = ContentBounds(probe.stats, probe.cols, probe.rows) ]
    /\ PureFrame

\* lines 328-334 of detectSignatureBounds: the suggested region of an
\* accepted contour, "none" for a contour the filter drops
DetectedBox(rect, cols, rows) ==
    IF /\ 1000 * rect.width * rect.height > cols * rows
       /\ 100 * rect.width * rect.height < 90 * cols * rows
    THEN LET x == Max(0, rect.x - DetectPad)
             y == Max(0, rect.y - DetectPad)
         IN  [ accepted |-> TRUE, x |-> x, y |-> y,
               width |-> Min(cols - x, rect.width + DetectPad * 2),
               height |-> Min(rows - y, rect.height + DetectPad * 2) ]
    ELSE [ accepted |-> FALSE, x |-> 0, y |-> 0, width |-> 0, height |-> 0 ]

\* bounding rectangles of contours of an image of FileA's size
ContourRects ==
    { r \in [ x : { 0, 5, DetectPad, 400, 900 }, y : { 0, DetectPad - 1, 300, 560 },
              width : { 1, 30, 100, 600, 1000 }, height : { 1, 40, 300, 600 } ] :
        r.x + r.width <= FileA.width /\ r.y + r.height <= FileA.height }

DetectInputs ==
    { [ fn |-> "detectSignatureBounds", done |-> FALSE, cols |-> FileA.width,
        rows |-> FileA.height, rect |-> r, out |-> 0 ] : r \in ContourRects }

ApplyDetect ==
    /\ probe.fn = "detectSignatureBounds"
    /\ ~probe.done
    /\ probe' = [ probe EXCEPT !.done = TRUE,
                    !.out = DetectedBox(probe.rect, probe.cols, probe.rows) ]
    /\ PureFrame

\* a crop GridSide pixels wide and two pixels high; every pixel is paper,
\* faint ink or strong ink (its margin below the neighbourhood mean)
Grid == (0..(GridSide - 1)) \X (0..1)
Margins == { 0, 24, 60 }
RefineSensitivities == { 1, 11, 12, DefaultSensitivity, 28, 29, SliderMax }

RefineInputs ==
    { [ fn |-> "refine", done |-> FALSE, margins |-> m, brightness |-> b,
        sensitivity |-> sens, out |-> {} ] :
      m \in [ Grid -> Margins ], b \in { 80, 200 }, sens \in RefineSensitivities }

ApplyRefine ==
    /\ probe.fn = "refine"
    /\ ~probe.done
    /\ probe' = [ probe EXCEPT !.done = TRUE,
                    !.out = RefinedPixels(probe.margins, probe.brightness, probe.sensitivity) ]
    /\ PureFrame

\* the threshold constant of detectSignatureBounds, computed as the
\* mutation of DetectBaseC chooses: the limits moved to 150 and 100
DetectBaseCShifted(brightness, sensitivity) ==
    IF brightness > 150 THEN sensitivity + 2
    ELSE IF brightness < 100 THEN sensitivity - 2
    ELSE sensitivity

\* baseC of detectSignatureBounds (line 305)
DetectBaseC(brightness, sensitivity) ==
    IF brightness > 160 THEN sensitivity + 2
    ELSE IF brightness < 90 THEN sensitivity - 2
    ELSE sensitivity

\* brightness values on both sides of the two limits, and the slider's range
BaseCInputs ==
    { [ fn |-> "baseC", done |-> FALSE, brightness |-> b, sensitivity |-> sens, out |-> 0 ] :
      b \in { 0, 89, 90, 91, 125, 159, 160, 161, 255 },
      sens \in { SliderMin, DefaultSensitivity, SliderMax } }

\* the constant both functions hand to cv.adaptiveThreshold
ApplyBaseC ==
    /\ probe.fn = "baseC"
    /\ ~probe.done
    /\ probe' = [ probe EXCEPT !.done = TRUE,
                    !.out = [ detect |-> DetectBaseC(probe.brightness, probe.sensitivity),
                              process |-> BaseC(probe.brightness, probe.sensitivity) ] ]
    /\ PureFrame

\* cv.bitwise_not on an 8-bit value
BitwiseNot(v) == 255 - v

\* the pixels of a matrix or canvas of the given size
PixelsOf(width, height) == (0..(width - 1)) \X (0..(height - 1))

\* lines 506 and 590-615: finalMat starts opaque white; the region dx, dy,
\* dsize receives blended = merge(inverseAlpha x 3, opaque), where alpha is
\* channel 3 of the resized content; pixels are << R, G, B, A >>
CompositeOnWhite(alpha, p, targetWidth, targetHeight) ==
    [ q \in PixelsOf(targetWidth, targetHeight) |->
        IF /\ p.dx <= q[1] /\ q[1] < p.dx + p.width
           /\ p.dy <= q[2] /\ q[2] < p.dy + p.height
        THEN << BitwiseNot(alpha[<< q[1] - p.dx, q[2] - p.dy >>]),
                BitwiseNot(alpha[<< q[1] - p.dx, q[2] - p.dy >>]),
                BitwiseNot(alpha[<< q[1] - p.dx, q[2] - p.dy >>]), 255 >>
        ELSE << 255, 255, 255, 255 >> ]

\* lines 573-640 pixel by pixel: the PNG returned for a crop of cols x rows
\* pixels of one colour whose alpha plane, once resized, is alpha; when
\* cv.resize or the roi raises, the catch block returns the canvas itself
FinishedPixels(colour, cols, rows, alpha, targetWidth, targetHeight) ==
    LET p == Placement(cols, rows, targetWidth, targetHeight)
    IN  IF ResizeThrows(p) \/ RoiThrows(p.dx, p.dy, p.width, p.height, targetWidth, targetHeight)
        THEN [ w |-> cols, h |-> rows, raised |-> TRUE,
               px |-> [ q \in PixelsOf(cols, rows) |-> colour ] ]
        ELSE [ w |-> targetWidth, h |-> targetHeight, raised |-> FALSE,
               px |-> CompositeOnWhite(alpha, p, targetWidth, targetHeight) ]

\* crops of the scanned page (a warm paper colour) and output sizes that
\* leave a content area of 2 x 1, 3 x 2 and 0 x 0 pixels
CompositeSizes ==
    { [ cols |-> 2, rows |-> 1, targetWidth |-> 22, targetHeight |-> 21 ],
      [ cols |-> 4, rows |-> 2, targetWidth |-> 22, targetHeight |-> 21 ],
      [ cols |-> 1, rows |-> 1, targetWidth |-> 23, targetHeight |-> 22 ],
      [ cols |-> 3, rows |-> 3, targetWidth |-> 20, targetHeight |-> 20 ] }

\* the alpha planes cv.resize can return for a placement: transparent, soft
\* edge or full ink at every pixel
ResizedAlphas(s) ==
    LET p == Placement(s.cols, s.rows, s.targetWidth, s.targetHeight)
    IN  [ PixelsOf(Max(p.width, 0), Max(p.height, 0)) -> { 0, 100, 255 } ]

CompositeInputs ==
    { [ fn |-> "composite", done |-> FALSE, colour |-> << 236, 228, 210, 255 >>,
        cols |-> c[1].cols, rows |-> c[1].rows, targetWidth |-> c[1].targetWidth,
        targetHeight |-> c[1].targetHeight, alpha |-> c[2], out |-> 0 ] :
      c \in UNION { { << s, a >> : a \in ResizedAlphas(s) } : s \in CompositeSizes } }

ApplyComposite ==
    /\ probe.fn = "composite"
    /\ ~probe.done
    /\ probe' = [ probe EXCEPT !.done = TRUE,
                    !.out = FinishedPixels(probe.colour, probe.cols, probe.rows, probe.alpha,
                                           probe.targetWidth, probe.targetHeight) ]
    /\ PureFrame

\* lines 764-822 of processAISignatureWithOpenCV pixel by pixel: the same
\* placement, the same composite onto Scalar(255, 255, 255, 255) and the
\* same catch block as in processSingleSignatureWithOpenCV
AIFinishedPixels(colour, cols, rows, alpha, targetWidth, targetHeight) ==
    LET p == Placement(cols, rows, targetWidth, targetHeight)
    IN  IF ResizeThrows(p) \/ RoiThrows(p.dx, p.dy, p.width, p.height, targetWidth, targetHeight)
        THEN [ w |-> cols, h |-> rows, raised |-> TRUE,
               px |-> [ q \in PixelsOf(cols, rows) |-> colour ] ]
        ELSE [ w |-> targetWidth, h |-> targetHeight, raised |-> FALSE,
               px |-> CompositeOnWhite(alpha, p, targetWidth, targetHeight) ]

AICompositeInputs ==
    { [ c EXCEPT !.fn = "aiComposite" ] : c \in CompositeInputs }

ApplyAIComposite ==
    /\ probe.fn = "aiComposite"
    /\ ~probe.done
    /\ probe' = [ probe EXCEPT !.done = TRUE,
                    !.out = AIFinishedPixels(probe.colour, probe.cols, probe.rows, probe.alpha,
                                             probe.targetWidth, probe.targetHeight) ]
    /\ PureFrame

\* processAISignatureWithOpenCV, lines 670-673: before the try block
AIPreOps ==
    << <<"new", "src">>, <<"new", "gray">>, <<"new", "binary">>, <<"new", "resized">> >>

\* processAISignatureWithOpenCV, lines 680-820: the try block
AITryOps(hasContent, nContours) ==
    << <<"pt", "cvtColor">>, <<"pt", "threshold">>,
       <<"new", "morphKernel">>, <<"pt", "morphologyEx">>, <<"del", "morphKernel">>,
       <<"new", "contours">>, <<"new", "hierarchy">>, <<"pt", "findContours">> >>
    \o Repeat(<< <<"new", "contour">>, <<"del", "contour">> >>, nContours)
    \o << <<"new", "softMask">>, <<"pt", "softBlur">>,
          <<"new", "tempRgba">>, <<"new", "channels">>, <<"new", "blackPlane">>,
          <<"pt", "merge">>, <<"del", "blackPlane">> >>
    \o (IF hasContent THEN << <<"pt", "cropRoi">>, <<"new", "cropped">> >> ELSE << >>)
    \o << <<"pt", "resize">> >>
    \o (IF hasContent THEN << <<"del", "cropped">> >> ELSE << >>)
    \o << <<"new", "finalMat">>, <<"pt", "finalRoi">>, <<"new", "roi">>,
          <<"new", "resizedChannels">>, <<"pt", "split">>, <<"new", "alpha">>,
          <<"new", "inverseAlpha">>, <<"pt", "bitwise_not">>,
          <<"new", "finalChannels">>, <<"new", "opaque">>, <<"new", "blended">>,
          <<"pt", "mergeFinal">>, <<"pt", "copyTo">>,
          \* Cleanup, lines 809-812
          <<"del", "channels">>, <<"del", "resizedChannels">>, <<"del", "alpha">>,
          <<"del", "inverseAlpha">>, <<"del", "finalChannels">>, <<"del", "opaque">>,
          <<"del", "blended">>, <<"del", "roi">>, <<"del", "softMask">>,
          <<"pt", "imshow">>, <<"pt", "toDataURL">> >>

\* a finally block that would delete softMask without asking isDeleted()
AIFinallyOpsUnguarded ==
    << <<"del", "src">>, <<"del", "gray">>, <<"del", "binary">>,
       <<"gdel", "resized">>, <<"gdel", "finalMat">>, <<"gdel", "contours">>,
       <<"gdel", "hierarchy">>, <<"del", "softMask">>, <<"gdel", "tempRgba">> >>

\* processAISignatureWithOpenCV, lines 824-832: the finally block
AIFinallyOps ==
    << <<"del", "src">>, <<"del", "gray">>, <<"del", "binary">>,
       <<"gdel", "resized">>, <<"gdel", "finalMat">>, <<"gdel", "contours">>,
       <<"gdel", "hierarchy">>, <<"gdel", "softMask">>, <<"gdel", "tempRgba">> >>

\* the stages of the try block of processAISignatureWithOpenCV
AIStages ==
    { "cvtColor", "threshold", "morphologyEx", "findContours", "softBlur", "merge",
      "cropRoi", "resize", "finalRoi", "split", "bitwise_not", "mergeFinal", "copyTo",
      "imshow", "toDataURL" }

\* the delete() calls the try block made before it returned or raised
InlineDeleted(body) == { body[k][2] : k \in { j \in 1..Len(body) : body[j][1] = "del" } }

\* one call of processSingleSignatureWithOpenCV in which stage raised raises
\* ("none": no stage does): what the try block deleted, and what the whole
\* call, finally block included, deleted twice
Released(adj, hasContent, nContours, raised) ==
    LET body == Executed(PreOps \o TryOps(adj, hasContent, nContours), {raised})
    IN  [ inline |-> InlineDeleted(body), dbl |-> DoubleDeleted(Trace(body)) ]

\* the same for one call of processAISignatureWithOpenCV
AIReleased(hasContent, nContours, raised) ==
    LET body == Executed(AIPreOps \o AITryOps(hasContent, nContours), {raised})
    IN  [ inline |-> InlineDeleted(body), dbl |-> DoubleDeleted(body \o AIFinallyOps) ]

ReleaseInputs ==
    { [ fn |-> "release", done |-> FALSE, adj |-> a, hasContent |-> h, nContours |-> n,
        raised |-> s, out |-> 0 ] :
      a \in {"none", "dilate", "erode"}, h \in BOOLEAN, n \in 0..MaxContours,
      s \in Stages \cup {"none"} }

ApplyRelease ==
    /\ probe.fn = "release"
    /\ ~probe.done
    /\ probe' = [ probe EXCEPT !.done = TRUE,
                    !.out = Released(probe.adj, probe.hasContent, probe.nContours,
                                     probe.raised) ]
    /\ PureFrame

AIReleaseInputs ==
    { [ fn |-> "aiRelease", done |-> FALSE, hasContent |-> h, nContours |-> n,
        raised |-> s, out |-> 0 ] :
      h \in BOOLEAN, n \in 0..MaxContours, s \in AIStages \cup {"none"} }

ApplyAIRelease ==
    /\ probe.fn = "aiRelease"
    /\ ~probe.done
    /\ probe' = [ probe EXCEPT !.done = TRUE,
                    !.out = AIReleased(probe.hasContent, probe.nContours, probe.raised) ]
    /\ PureFrame

ProbeInputs ==
    RecommendInputs \cup PlacementInputs \cup CropRectInputs \cup ContentBoundsInputs
        \cup DetectInputs
        \cup BaseCInputs
        \cup CompositeInputs
        \cup AICompositeInputs
        \cup ReleaseInputs
        \cup AIReleaseInputs

InitPure ==
    /\ runs = [ r \in RunIds |-> IdleRun ]
    /\ thread = 0
    /\ heap = {}
    /\ doubleFreed = {}
    /\ faults = 0
    /\ twice = NoTwice
    /\ editor = NoEditor
    /\ cvLoader = NoLoader
    /\ InitApp
    /\ probe \in ProbeInputs

NextPure ==
    \/ ApplyRecommend
    \/ ApplyPlacement
    \/ ApplyCropRect
    \/ ApplyContentBounds
    \/ ApplyDetect
    \/ ApplyBaseC
    \/ ApplyComposite
    \/ ApplyAIComposite
    \/ ApplyRelease
    \/ ApplyAIRelease

SpecPure == InitPure /\ [][NextPure]_vars

\* the refinement of the binary mask, evaluated pixel by pixel
InitRefine ==
    /\ runs = [ r \in RunIds |-> IdleRun ]
    /\ thread = 0
    /\ heap = {}
    /\ doubleFreed = {}
    /\ faults = 0
    /\ twice = NoTwice
    /\ editor = NoEditor
    /\ cvLoader = NoLoader
    /\ InitApp
    /\ probe \in RefineInputs

NextRefine == ApplyRefine

SpecRefine == InitRefine /\ [][NextRefine]_vars

\* C13: recommendSensitivity returns the value of the decision table: by
\* noise density (> 0.15, 0.05 to 0.15, < 0.05) and brightness (> 150, 100
\* to 150, < 100) it is 12/10/8, 22/18/15, 28/25/20; it lies in [5, 35].
C13_DecisionTable ==
    (probe.fn = "recommendSensitivity" /\ probe.done) =>
        LET high == 100 * probe.edgePixels > 15 * probe.totalPixels
            low == 100 * probe.edgePixels < 5 * probe.totalPixels
            row == IF high THEN << 12, 10, 8 >>
                   ELSE IF low THEN << 28, 25, 20 >>
                   ELSE << 22, 18, 15 >>
            col == IF probe.brightness > 150 THEN 1
                   ELSE IF probe.brightness >= 100 THEN 2 ELSE 3
        IN  /\ probe.out = row[col]
            /\ probe.out \in 5..35

\* C13 happens: a bright image with few edges got 28 (and the table was
\* consulted for it).
C13_Witness ==
    /\ probe.fn = "recommendSensitivity"
    /\ probe.done
    /\ probe.brightness > 150
    /\ 100 * probe.edgePixels < 5 * probe.totalPixels
    /\ probe.out = 28

\* C14: the scaled content is centred on the output canvas: the margins left
\* and right of the placed rectangle differ by at most one pixel, and so do
\* the margins above and below it.
C14_Centred ==
    (probe.fn = "placement" /\ probe.done /\ ~ResizeThrows(probe.out)) =>
        LET left == probe.out.dx
            right == probe.targetWidth - (probe.out.dx + probe.out.width)
            top == probe.out.dy
            bottom == probe.targetHeight - (probe.out.dy + probe.out.height)
        IN  /\ left - right \in -1..1
            /\ top - bottom \in -1..1
            /\ left >= 0 /\ right >= 0 /\ top >= 0 /\ bottom >= 0

\* C14 happens: content was placed with an odd number of free columns (the
\* left and right margins cannot be equal) and an even number of free rows.
C14_Witness ==
    /\ probe.fn = "placement"
    /\ probe.done
    /\ ~ResizeThrows(probe.out)
    /\ (probe.targetWidth - probe.out.width) % 2 = 1
    /\ (probe.targetHeight - probe.out.height) % 2 = 0
    /\ probe.out.dx > 0
    /\ probe.out.dy > 0

\* C19: the crop rectangle is the content box expanded by 4 pixels on each
\* side and then clamped to the mask: its edges are max(0, min - 4) and
\* min(size, max + 4).
C19_PadThenClamp ==
    (probe.fn = "cropRect" /\ probe.done) =>
        /\ probe.out.x = Max(0, probe.b.minX - 4)
        /\ probe.out.y = Max(0, probe.b.minY - 4)
        /\ probe.out.x + probe.out.width = Min(probe.cols, probe.b.maxX + 4)
        /\ probe.out.y + probe.out.height = Min(probe.rows, probe.b.maxY + 4)

\* the specks of the probed contour list: every entry but the blob
SpecksOf(p) == { p.stats[k] : k \in (1..Len(p.stats)) \ {p.blob} }

\* C12: for a mask with one large blob of contour area A (large: above the
\* absolute minimum of 20) and specks each of area below 0.01 * A, the
\* content bounding box is the blob's bounding box.
C12_BlobBoxOnly ==
    ( /\ probe.fn = "contentBounds"
      /\ probe.done
      /\ probe.stats[probe.blob].area > 20
      /\ \A sp \in SpecksOf(probe) : 100 * sp.area < probe.stats[probe.blob].area )
    => LET blob == probe.stats[probe.blob].rect
       IN  /\ probe.out.hasContent
           /\ probe.out.minX = blob.x
           /\ probe.out.minY = blob.y
           /\ probe.out.maxX = blob.x + blob.width
           /\ probe.out.maxY = blob.y + blob.height

\* C12 happens: a speck of area above 20 but below 0.01 * A lies outside the
\* blob's box and the content box is the blob's box.
C12_Witness ==
    /\ probe.fn = "contentBounds"
    /\ probe.done
    /\ probe.out.hasContent
    /\ probe.out.minX = BlobRect.x
    /\ probe.out.maxY = BlobRect.y + BlobRect.height
    /\ \A sp \in SpecksOf(probe) : 100 * sp.area < probe.stats[probe.blob].area
    /\ \E sp \in SpecksOf(probe) : sp.area > 20 /\ sp.rect.x < BlobRect.x

\* C20: every region suggested by detectSignatureBounds is an accepted
\* contour's bounding rectangle padded by 20 pixels on each side and then
\* clamped to the image; it lies inside the image and is not empty.
C20_PadThenClamp ==
    (probe.fn = "detectSignatureBounds" /\ probe.done /\ probe.out.accepted) =>
        /\ probe.out.x = Max(0, probe.rect.x - 20)
        /\ probe.out.y = Max(0, probe.rect.y - 20)
        /\ probe.out.x + probe.out.width = Min(probe.cols, probe.rect.x + probe.rect.width + 20)
        /\ probe.out.y + probe.out.height = Min(probe.rows, probe.rect.y + probe.rect.height + 20)
        /\ probe.out.width > 0
        /\ probe.out.height > 0

\* C11: on the same crop the refined mask has, at any sensitivity above 28,
\* no more ink pixels than at sensitivity 20 and, at any sensitivity below
\* 12, no fewer ink pixels than at sensitivity 20.
C11_InkMonotone ==
    (probe.fn = "refine" /\ probe.done) =>
        LET at20 == Cardinality(RefinedPixels(probe.margins, probe.brightness, 20))
        IN  /\ probe.sensitivity > 28 => Cardinality(probe.out) <= at20
            /\ probe.sensitivity < 12 => Cardinality(probe.out) >= at20

\* C11 happens: a crop whose mask at sensitivity 20 has ink, but not
\* everywhere, was refined at a sensitivity above 28 and lost ink.
C11_Witness ==
    /\ probe.fn = "refine"
    /\ probe.done
    /\ probe.sensitivity > 28
    /\ probe.out # {}
    /\ Cardinality(probe.out) < Cardinality(RefinedPixels(probe.margins, probe.brightness, 20))

\* C18: after the opening exactly one adjustment is applied, chosen by the
\* sensitivity alone: one dilation iff sensitivity < 12, one erosion iff
\* sensitivity > 28, none from 12 to 28.
C18_AdjustmentBySensitivity ==
    (probe.fn = "refine" /\ probe.done) =>
        LET opened == OpenMask(ThresholdMask(probe.margins,
                                             BaseC(probe.brightness, probe.sensitivity)),
                               RectKernel, Grid)
        IN  /\ probe.sensitivity < 12 => probe.out = DilateMask(opened, EllipseKernel, Grid)
            /\ probe.sensitivity > 28 => probe.out = ErodeMask(opened, EllipseKernel, Grid)
            /\ probe.sensitivity \in 12..28 => probe.out = opened

\* C18 happens: at sensitivity 12 a mask was left as the opening produced
\* it, although a dilation would have changed it.
C18_Witness ==
    /\ probe.fn = "refine"
    /\ probe.done
    /\ probe.sensitivity = 12
    /\ probe.out # {}
    /\ DilateMask(probe.out, EllipseKernel, Grid) # probe.out
    /\ ErodeMask(probe.out, EllipseKernel, Grid) # probe.out

-----------------------------------------------------------------------------
(* The ImageEditor component (src/unnamed/part_000): boxes are drawn, moved,
   resized and turned with the mouse on an image of originalWidth x
   originalHeight pixels.  Pointer positions are image coordinates. *)

\* the image shown in the editor
originalWidth == 60
originalHeight == 40

\* pointer positions before getRelativeCoords clamps them
PointerXs == {-15, 0, 15, 30, 45, 60}
PointerYs == {0, 20, 55}

\* changes of the pointer's angle around a box centre, in degrees
DeltaAngles == {43}

Abs(v) == IF v < 0 THEN -v ELSE v

clamp(val, lo, hi) == Min(Max(val, lo), hi)

\* getRelativeCoords: the pointer in image coordinates, clamped to the image
getRelativeCoords(px, py) ==
    [ x |-> clamp(px, 0, originalWidth), y |-> clamp(py, 0, originalHeight) ]

\* the loop of getSnappedValue from target k on
RECURSIVE SnapLoop(_, _, _, _, _)
SnapLoop(currentVal, targets, k, closest, minDiff) ==
    IF k > Len(targets) THEN closest
    ELSE IF Abs(currentVal - targets[k]) < minDiff
         THEN SnapLoop(currentVal, targets, k + 1, targets[k], Abs(currentVal - targets[k]))
         ELSE SnapLoop(currentVal, targets, k + 1, closest, minDiff)

\* getSnappedValue: the first closest target nearer than SNAP_THRESHOLD
getSnappedValue(currentVal, targets) ==
    SnapLoop(currentVal, targets, 1, currentVal, SNAP_THRESHOLD)

\* boxes.filter(b => b.id !== selectedId)
RECURSIVE OtherBoxes(_, _)
OtherBoxes(boxes, selectedId) ==
    IF boxes = << >> THEN << >>
    ELSE IF Head(boxes).id # selectedId
         THEN << Head(boxes) >> \o OtherBoxes(Tail(boxes), selectedId)
         ELSE OtherBoxes(Tail(boxes), selectedId)

\* otherBoxes.flatMap(b => [b.x, b.x + b.width])
RECURSIVE VEdges(_)
VEdges(boxes) ==
    IF boxes = << >> THEN << >>
    ELSE << Head(boxes).x, Head(boxes).x + Head(boxes).width >> \o VEdges(Tail(boxes))

\* otherBoxes.flatMap(b => [b.y, b.y + b.height])
RECURSIVE HEdges(_)
HEdges(boxes) ==
    IF boxes = << >> THEN << >>
    ELSE << Head(boxes).y, Head(boxes).y + Head(boxes).height >> \o HEdges(Tail(boxes))

vTargets(boxes, selectedId) == << 0, originalWidth >> \o VEdges(OtherBoxes(boxes, selectedId))
hTargets(boxes, selectedId) == << 0, originalHeight >> \o HEdges(OtherBoxes(boxes, selectedId))

\* activeHandle.includes('e'), ('w'), ('s'), ('n')
ResizeHandles == { "nw", "n", "ne", "e", "se", "s", "sw", "w" }
HasE(h) == h \in { "ne", "e", "se" }
HasW(h) == h \in { "nw", "w", "sw" }
HasS(h) == h \in { "se", "s", "sw" }
HasN(h) == h \in { "nw", "n", "ne" }

\* the temporary box of the DRAWING branch of handleWindowMouseMove
DrawnBox(startPoint, current) ==
    LET newX == clamp(Min(startPoint.x, current.x), 0, originalWidth)
        newY == clamp(Min(startPoint.y, current.y), 0, originalHeight)
    IN  [ id |-> "temp", x |-> newX, y |-> newY,
          width |-> clamp(Abs(current.x - startPoint.x), 0, originalWidth - newX),
          height |-> clamp(Abs(current.y - startPoint.y), 0, originalHeight - newY),
          rotation |-> 0 ]

\* finalX of the MOVING branch: snap the left or the right edge, then clamp
MovedX(rawX, width, targets) ==
    LET snappedLeft == getSnappedValue(rawX, targets)
        snappedRightX == getSnappedValue(rawX + width, targets) - width
        diffLeft == Abs(snappedLeft - rawX)
        diffRight == Abs(snappedRightX - rawX)
        isLeftSnap == diffLeft < SNAP_THRESHOLD
        isRightSnap == diffRight < SNAP_THRESHOLD
        finalX == IF snappedLeft = rawX /\ snappedRightX # rawX THEN snappedLeft
                  ELSE IF snappedRightX = rawX /\ snappedLeft # rawX THEN snappedRightX
                  ELSE IF isLeftSnap /\ isRightSnap
                       THEN (IF diffLeft < diffRight THEN snappedLeft ELSE snappedRightX)
                  ELSE IF isLeftSnap THEN snappedLeft
                  ELSE IF isRightSnap THEN snappedRightX
                  ELSE rawX
    IN  clamp(finalX, 0, originalWidth - width)

\* finalY of the MOVING branch
MovedY(rawY, height, targets) ==
    LET snappedTop == getSnappedValue(rawY, targets)
        snappedBottomY == getSnappedValue(rawY + height, targets) - height
        diffTop == Abs(snappedTop - rawY)
        diffBottom == Abs(snappedBottomY - rawY)
        isTopSnap == diffTop < SNAP_THRESHOLD
        isBottomSnap == diffBottom < SNAP_THRESHOLD
        finalY == IF isTopSnap /\ isBottomSnap
                  THEN (IF diffTop < diffBottom THEN snappedTop ELSE snappedBottomY)
                  ELSE IF isTopSnap THEN snappedTop
                  ELSE IF isBottomSnap THEN snappedBottomY
                  ELSE rawY
    IN  clamp(finalY, 0, originalHeight - height)

\* one axis of the RESIZING branch: delta, snapping, normalisation, clamp;
\* far and near say whether the handle holds the far (e, s) or near (w, n) edge
ResizedSpan(pos, size, delta, far, near, targets, limit) ==
    LET w1 == IF far THEN size + delta ELSE size
        x2 == IF near THEN pos + delta ELSE pos
        w2 == IF near THEN w1 - delta ELSE w1
        w3 == IF far THEN getSnappedValue(x2 + w2, targets) - x2 ELSE w2
        x4 == IF near THEN getSnappedValue(x2, targets) ELSE x2
        w4 == IF near THEN w3 - (x4 - x2) ELSE w3
        x5 == IF w4 < 0 THEN x4 + w4 ELSE x4
        w5 == Abs(w4)
        x6 == clamp(x5, 0, limit)
    IN  [ pos |-> x6, size |-> clamp(w5, 0, limit - x6) ]

\* the RESIZING branch of handleWindowMouseMove for the selected box
ResizedBox(snapshot, handle, deltaX, deltaY, vT, hT) ==
    LET h == ResizedSpan(snapshot.x, snapshot.width, deltaX, HasE(handle), HasW(handle),
                         vT, originalWidth)
        v == ResizedSpan(snapshot.y, snapshot.height, deltaY, HasS(handle), HasN(handle),
                         hT, originalHeight)
    IN  [ x |-> h.pos, y |-> v.pos, width |-> h.size, height |-> v.size ]

\* the rotation snapping of the ROTATING branch
TurnedTo(rotation, deltaAngle) ==
    LET newRotation == rotation + deltaAngle
        nearestMultiple == Round(newRotation, ROTATION_SNAP_INTERVAL) * ROTATION_SNAP_INTERVAL
    IN  IF Abs(newRotation - nearestMultiple) < ROTATION_SNAP_THRESHOLD
        THEN nearestMultiple ELSE newRotation

\* { ...b, fields }: the box with the given fields replaced
Spread(b, fields) == [ f \in DOMAIN b |-> IF f \in DOMAIN fields THEN fields[f] ELSE b[f] ]

\* prev.map(b => b.id === selectedId ? { ...b, fields } : b)
MapSelected(boxes, selectedId, fields) ==
    [ k \in 1..Len(boxes) |-> IF boxes[k].id = selectedId THEN Spread(boxes[k], fields) ELSE boxes[k] ]

\* boxes.find(b => b.id === id), for an id of the list
FindBox(boxes, id) == boxes[CHOOSE k \in 1..Len(boxes) : boxes[k].id = id /\ \A j \in 1..(k - 1) : boxes[j].id # id]

\* where the pointer goes down on a box: its left edge or its middle
GrabPoints(box) ==
    { [ x |-> clamp(px, 0, originalWidth), y |-> clamp(py, 0, originalHeight) ] :
        px \in { box.x, box.x + box.width \div 2 },
        py \in { box.y + box.height \div 2 } }

\* where the pointer goes down on a resize handle
HandlePoint(box, handle) ==
    [ x |-> IF HasE(handle) THEN box.x + box.width
            ELSE IF HasW(handle) THEN box.x ELSE box.x + box.width \div 2,
      y |-> IF HasS(handle) THEN box.y + box.height
            ELSE IF HasN(handle) THEN box.y ELSE box.y + box.height \div 2 ]

\* the boxes the editor is mounted with (initialBoxes): one suggested box
InitialBoxes ==
    { << [ id |-> "b1", x |-> 15, y |-> 0, width |-> 30, height |-> 20, rotation |-> 0 ] >> }

\* the component's state after mounting
Mounted(initialBoxes) ==
    [ mode |-> "IDLE", boxes |-> initialBoxes, selectedId |-> "", startPoint |-> NoPoint,
      activeHandle |-> "", tempBox |-> NoBox, initialBoxSnapshot |-> NoBox,
      isPreviewMode |-> FALSE, confirmed |-> FALSE, gestures |-> 0 ]

EditorFrame == UNCHANGED << runs, thread, heap, doubleFreed, faults, appVars, twice, probe, cvLoader >>

\* the editor accepts pointer and button events
Editing == editor.mode # "UNMOUNTED" /\ ~editor.confirmed

\* a pointer gesture may begin: the editor is idle and in edit mode
MayGrab == Editing /\ editor.mode = "IDLE" /\ ~editor.isPreviewMode /\ editor.gestures < MaxGestures

\* handleContainerMouseDown: start drawing
HandleContainerMouseDown ==
    /\ MayGrab
    /\ Len(editor.boxes) < MaxBoxes
    /\ \E px \in PointerXs, py \in PointerYs :
         LET coords == getRelativeCoords(px, py)
         IN  editor' = [ editor EXCEPT !.gestures = @ + 1, !.selectedId = "", !.startPoint = coords,
                                       !.mode = "DRAWING",
                                       !.tempBox = [ id |-> "temp", x |-> coords.x, y |-> coords.y,
                                                     width |-> 0, height |-> 0, rotation |-> 0 ] ]
    /\ EditorFrame

\* handleBoxMouseDown: start moving a box
HandleBoxMouseDown ==
    /\ MayGrab
    /\ \E k \in 1..Len(editor.boxes) : \E p \in GrabPoints(editor.boxes[k]) :
         editor' = [ editor EXCEPT !.gestures = @ + 1, !.selectedId = editor.boxes[k].id, !.mode = "MOVING",
                                   !.startPoint = p,
                                   !.initialBoxSnapshot = FindBox(editor.boxes, editor.boxes[k].id) ]
    /\ EditorFrame

\* handleResizeMouseDown: start resizing the selected box by one of its handles
HandleResizeMouseDown ==
    /\ MayGrab
    /\ \E k \in 1..Len(editor.boxes) : \E handle \in ResizeHandles :
         /\ editor.boxes[k].id = editor.selectedId
         /\ editor' = [ editor EXCEPT !.gestures = @ + 1, !.selectedId = editor.boxes[k].id, !.mode = "RESIZING",
                                   !.activeHandle = handle,
                                   !.startPoint = getRelativeCoords(HandlePoint(editor.boxes[k], handle).x,
                                                                    HandlePoint(editor.boxes[k], handle).y),
                                   !.initialBoxSnapshot = FindBox(editor.boxes, editor.boxes[k].id) ]
    /\ EditorFrame

\* handleRotateMouseDown: start turning the selected box
HandleRotateMouseDown ==
    /\ MayGrab
    /\ \E k \in 1..Len(editor.boxes) :
         /\ editor.boxes[k].id = editor.selectedId
         /\ editor' = [ editor EXCEPT !.gestures = @ + 1, !.selectedId = editor.boxes[k].id, !.mode = "ROTATING",
                                   !.startPoint = getRelativeCoords(HandlePoint(editor.boxes[k], "n").x, 0),
                                   !.initialBoxSnapshot = FindBox(editor.boxes, editor.boxes[k].id) ]
    /\ EditorFrame

\* handleWindowMouseMove while drawing
MouseMoveDrawing ==
    /\ Editing
    /\ editor.mode = "DRAWING"
    /\ editor.tempBox # NoBox
    /\ \E px \in PointerXs, py \in PointerYs :
         editor' = [ editor EXCEPT
                       !.tempBox = DrawnBox(editor.startPoint, getRelativeCoords(px, py)) ]
    /\ EditorFrame

\* handleWindowMouseMove while turning a box
MouseMoveRotating ==
    /\ Editing
    /\ editor.mode = "ROTATING"
    /\ editor.initialBoxSnapshot # NoBox
    /\ \E deltaAngle \in DeltaAngles :
         LET newRotation == TurnedTo(editor.initialBoxSnapshot.rotation, deltaAngle)
         IN  /\ Abs(newRotation) <= MaxTurn
             /\ editor' = [ editor EXCEPT !.boxes = MapSelected(@, editor.selectedId,
                                                                [ rotation |-> newRotation ]) ]
    /\ EditorFrame

\* handleWindowMouseMove while moving a box
MouseMoveMoving ==
    /\ Editing
    /\ editor.mode = "MOVING"
    /\ editor.initialBoxSnapshot # NoBox
    /\ \E px \in PointerXs, py \in PointerYs :
         LET current == getRelativeCoords(px, py)
             snapshot == editor.initialBoxSnapshot
             finalX == MovedX(snapshot.x + (current.x - editor.startPoint.x), snapshot.width,
                              vTargets(editor.boxes, editor.selectedId))
             finalY == MovedY(snapshot.y + (current.y - editor.startPoint.y), snapshot.height,
                              hTargets(editor.boxes, editor.selectedId))
         IN  editor' = [ editor EXCEPT !.boxes = MapSelected(@, editor.selectedId,
                                                            [ x |-> finalX, y |-> finalY ]) ]
    /\ EditorFrame

\* handleWindowMouseMove while resizing a box
MouseMoveResizing ==
    /\ Editing
    /\ editor.mode = "RESIZING"
    /\ editor.initialBoxSnapshot # NoBox
    /\ editor.activeHandle # ""
    /\ \E px \in PointerXs, py \in PointerYs :
         LET current == getRelativeCoords(px, py)
             resized == ResizedBox(editor.initialBoxSnapshot, editor.activeHandle,
                                   current.x - editor.startPoint.x,
                                   current.y - editor.startPoint.y,
                                   vTargets(editor.boxes, editor.selectedId),
                                   hTargets(editor.boxes, editor.selectedId))
         IN  editor' = [ editor EXCEPT !.boxes = MapSelected(@, editor.selectedId, resized) ]
    /\ EditorFrame

\* handleWindowMouseUp: a drawn box larger than 10 x 10 joins the list under a fresh id
HandleWindowMouseUp ==
    /\ Editing
    /\ editor.mode # "IDLE"
    /\ LET keep == /\ editor.mode = "DRAWING"
                   /\ editor.tempBox # NoBox
                   /\ editor.tempBox.width > MinDrawn
                   /\ editor.tempBox.height > MinDrawn
           newBox == [ editor.tempBox EXCEPT !.id = FreshId(editor.boxes) ]
       IN  editor' = [ editor EXCEPT
                         !.boxes = IF keep THEN Append(@, newBox) ELSE @,
                         !.selectedId = IF keep THEN newBox.id ELSE @,
                         !.tempBox = NoBox, !.mode = "IDLE", !.startPoint = NoPoint,
                         !.initialBoxSnapshot = NoBox, !.activeHandle = "" ]
    /\ EditorFrame

\* removeBox, from the close button of the selected box
RemoveBox ==
    /\ Editing
    /\ editor.mode = "IDLE"
    /\ ~editor.isPreviewMode
    /\ \E k \in 1..Len(editor.boxes) :
         /\ editor.boxes[k].id = editor.selectedId
         /\ editor' = [ editor EXCEPT !.boxes = OtherBoxes(@, editor.boxes[k].id),
                                   !.selectedId = IF @ = editor.boxes[k].id THEN "" ELSE @ ]
    /\ EditorFrame

\* handleClear
HandleClear ==
    /\ Editing
    /\ editor.mode = "IDLE"
    /\ ~editor.isPreviewMode
    /\ editor.boxes # << >>
    /\ editor' = [ editor EXCEPT !.boxes = << >>, !.selectedId = "" ]
    /\ EditorFrame

\* the preview button
TogglePreview ==
    /\ Editing
    /\ editor.mode = "IDLE"
    /\ editor' = [ editor EXCEPT !.isPreviewMode = ~@ ]
    /\ EditorFrame

\* the confirm buttons: onConfirm(boxes), onProcessWithAI(boxes)
ConfirmBoxes ==
    /\ Editing
    /\ editor.mode = "IDLE"
    /\ editor' = [ editor EXCEPT !.confirmed = TRUE ]
    /\ EditorFrame

InitEditor ==
    /\ runs = [ r \in RunIds |-> IdleRun ]
    /\ thread = 0
    /\ heap = {}
    /\ doubleFreed = {}
    /\ faults = 0
    /\ twice = NoTwice
    /\ probe = NoProbe
    /\ cvLoader = NoLoader
    /\ InitApp
    /\ editor \in { Mounted(initialBoxes) : initialBoxes \in InitialBoxes }

NextEditor ==
    \/ HandleContainerMouseDown
    \/ HandleBoxMouseDown
    \/ HandleResizeMouseDown
    \/ HandleRotateMouseDown
    \/ MouseMoveDrawing
    \/ MouseMoveRotating
    \/ MouseMoveMoving
    \/ MouseMoveResizing
    \/ HandleWindowMouseUp
    \/ RemoveBox
    \/ HandleClear
    \/ TogglePreview
    \/ ConfirmBoxes

SpecEditor == InitEditor /\ [][NextEditor]_vars

\* C15: after any sequence of draw, move and resize interactions (the pointer
\* is up again) every box of the editor's list, and so every region handed
\* over on confirm, has width > 0 and height > 0 and lies inside the image.
C15_BoxesInsideImage ==
    editor.mode = "IDLE" =>
        \A k \in 1..Len(editor.boxes) :
            /\ editor.boxes[k].width > 0
            /\ editor.boxes[k].height > 0
            /\ 0 <= editor.boxes[k].x
            /\ editor.boxes[k].x + editor.boxes[k].width <= originalWidth
            /\ 0 <= editor.boxes[k].y
            /\ editor.boxes[k].y + editor.boxes[k].height <= originalHeight

\* C21: detectSignatureBounds and processSingleSignatureWithOpenCV compute
\* the adaptive-threshold constant by the same rule: sensitivity + 2 when
\* brightness > 160, sensitivity - 2 when brightness < 90, the sensitivity
\* itself otherwise (160 and 90 included); for the same brightness and
\* sensitivity the two constants are equal.
C21_SameConstant ==
    (probe.fn = "baseC" /\ probe.done) =>
        /\ probe.out.detect = probe.out.process
        /\ probe.brightness > 160 => probe.out.process = probe.sensitivity + 2
        /\ probe.brightness < 90 => probe.out.process = probe.sensitivity - 2
        /\ (probe.brightness >= 90 /\ probe.brightness <= 160) =>
              probe.out.process = probe.sensitivity

\* C21 happens: at brightness exactly 160 both functions used the sensitivity unchanged
C21_Witness ==
    /\ probe.fn = "baseC"
    /\ probe.done
    /\ probe.brightness = 160
    /\ probe.out.detect = probe.sensitivity
    /\ probe.out.process = probe.sensitivity

\* C22: in the processed bitmap every pixel is opaque (A = 255) with
\* R = G = B; inside the placed content rectangle the value is 255 minus the
\* resized ink alpha, outside it the value is 255.
C22_InkOnOpaqueWhite ==
    (probe.fn = "composite" /\ probe.done) =>
        LET p == Placement(probe.cols, probe.rows, probe.targetWidth, probe.targetHeight)
        IN  \A q \in DOMAIN probe.out.px :
                LET px == probe.out.px[q]
                    inside == /\ p.dx <= q[1] /\ q[1] < p.dx + p.width
                              /\ p.dy <= q[2] /\ q[2] < p.dy + p.height
                IN  /\ px[4] = 255
                    /\ px[1] = px[2]
                    /\ px[2] = px[3]
                    /\ inside => px[1] = 255 - probe.alpha[<< q[1] - p.dx, q[2] - p.dy >>]
                    /\ ~inside => px[1] = 255

\* C23: processAISignatureWithOpenCV produces black ink on a transparent
\* background: every pixel of its output that carries no ink (outside the
\* placed content, or inside it where the resized ink alpha is 0) has alpha 0.
C23_TransparentBackground ==
    (probe.fn = "aiComposite" /\ probe.done /\ ~probe.out.raised) =>
        LET p == Placement(probe.cols, probe.rows, probe.targetWidth, probe.targetHeight)
        IN  \A q \in DOMAIN probe.out.px :
                LET inside == /\ p.dx <= q[1] /\ q[1] < p.dx + p.width
                              /\ p.dy <= q[2] /\ q[2] < p.dy + p.height
                    noInk == inside => probe.alpha[<< q[1] - p.dx, q[2] - p.dy >>] = 0
                IN  noInk => probe.out.px[q][4] = 0

\* C24: neither processSingleSignatureWithOpenCV nor
\* processAISignatureWithOpenCV calls delete() on a buffer that is already
\* deleted, whichever stage raises, the finally block included
C24_NoDoubleRelease ==
    (probe.fn \in {"release", "aiRelease"} /\ probe.done) => probe.out.dbl = {}

\* imshow raises after the inline cleanup has deleted softMask, and the
\* finally block then meets the deleted softMask
C24_Witness ==
    /\ probe.fn = "aiRelease"
    /\ probe.done
    /\ probe.raised = "imshow"
    /\ "softMask" \in probe.out.inline

\* the processed bitmap of a displayed signature is the one the pipeline
\* computes at this sensitivity (a raw crop returned by the catch block
\* carries no threshold constant and is the same at every sensitivity)
ComputedWith(sig, file, sensitivity) ==
    "C" \in DOMAIN sig.processedDataUrl.px =>
        sig.processedDataUrl.px.C = BaseC(FileOf(file).brightness, sensitivity)

\* C25: when the last reprocessing run of the active image has returned and
\* no other run is left (local mode), every displayed signature of that image
\* is the one computed with the sensitivity requested last, the image's
\* current sensitivity (handleSensitivityChange stores it with the request),
\* in whatever order overlapping runs went through their awaits.
C25_LastRequestWins ==
    \A r \in RunIds :
        ( /\ runs[r].caller = "reprocess"
          /\ runs[r].pc = "returned"
          /\ \A q \in RunIds \ {r} : runs[q].pc = "idle"
          /\ processingMode = "local"
          /\ status = "COMPLETED"
          /\ HasActive
          /\ runs[r].image = activeImageId ) =>
            \A k \in 1..Len(signatures) :
                signatures[k].sourceImageId = activeImageId =>
                    ComputedWith(signatures[k], ActiveImage.file, ActiveImage.sensitivity)

\* C26: from handleReset until an image is added again (the list of
\* uploaded images is empty; so it is before the first upload) the status is
\* IDLE and no signature is displayed, also when a run started before the
\* reset completes afterwards.
C26_ResetHolds ==
    uploadedImages = << >> => (status = "IDLE" /\ signatures = << >>)

\* a reprocessing run is in flight: called and its finally block not yet run
ReprocessInFlight == { r \in RunIds : runs[r].caller = "reprocess" /\ runs[r].pc # "idle" }

\* C27: isRecomputing is true exactly while at least one reProcessSignatures
\* run is in flight, for any number of overlapping requests.
C27_FlagTracksRuns == isRecomputing <=> ReprocessInFlight # {}

-----------------------------------------------------------------------------
(* loadOpenCV: the module-level promise cvPromise, the polling interval    *)
(* and the timeout its executor starts, and window.cv, which the script    *)
(* tag of the page sets once the library has initialised (or never).       *)
(* Promises are numbered in the order of their creation; the clock counts  *)
(* polling periods since the executor ran.                                 *)

\* the polling periods that fit into the timeout
TimeoutTicks == TimeoutMs \div PollMs

\* a timeout callback that would reject when the library is missing
TimeoutRejects(state) == IF state = "pending" THEN "rejected" ELSE state

\* resolve(): a pending promise becomes resolved, a settled one stays as it is
Resolve(state) == IF state = "pending" THEN "resolved" ELSE state

\* lines 1122-1130, the timeout callback with the library missing: resolve()
TimeoutSettles(state) == Resolve(state)

\* a loadOpenCV that would build a new promise on every call
CvPromiseForgotten(loader) == 0

\* line 1101: the promise remembered from an earlier call, 0 for null
CvPromiseKept(loader) == loader.cvPromise

InitLoad ==
    /\ runs = [ r \in RunIds |-> IdleRun ]
    /\ thread = 0
    /\ heap = {}
    /\ doubleFreed = {}
    /\ faults = 0
    /\ twice = NoTwice
    /\ probe = NoProbe
    /\ editor = NoEditor
    /\ InitApp
    /\ cvLoader = [ cvPromise |-> 0, promises |-> 0, state |-> "none", cv |-> FALSE,
                    interval |-> FALSE, intervals |-> 0, timeout |-> FALSE,
                    timeouts |-> 0, clock |-> 0, returned |-> << >> ]

LoadFrame == UNCHANGED << runs, thread, heap, doubleFreed, faults, appVars, twice, probe, editor >>

\* the script finishes initialising: window.cv.Mat exists from now on
CvReady ==
    /\ ~cvLoader.cv
    /\ cvLoader' = [ cvLoader EXCEPT !.cv = TRUE ]
    /\ LoadFrame

\* lines 1100-1133: one call of loadOpenCV, the executor included
LoadOpenCV ==
    /\ Len(cvLoader.returned) < MaxLoads
    /\ cvLoader' =
         IF CvPromiseKept(cvLoader) # 0
         THEN [ cvLoader EXCEPT !.returned = Append(@, CvPromiseKept(cvLoader)) ]
         ELSE IF cvLoader.cv
         THEN [ cvLoader EXCEPT !.cvPromise = cvLoader.promises + 1,
                                !.promises = @ + 1,
                                !.state = "resolved",
                                !.returned = Append(@, cvLoader.promises + 1) ]
         ELSE [ cvLoader EXCEPT !.cvPromise = cvLoader.promises + 1,
                                !.promises = @ + 1,
                                !.state = "pending",
                                !.interval = TRUE, !.intervals = @ + 1,
                                !.timeout = TRUE, !.timeouts = @ + 1,
                                !.clock = 0,
                                !.returned = Append(@, cvLoader.promises + 1) ]
    /\ LoadFrame

\* lines 1110-1116: a polling period passes and the interval callback runs
PollTick ==
    /\ cvLoader.interval
    /\ cvLoader.timeout => cvLoader.clock < TimeoutTicks
    /\ cvLoader' =
         [ cvLoader EXCEPT
             !.clock = IF cvLoader.timeout THEN @ + 1 ELSE @,
             !.interval = ~cvLoader.cv,
             !.state = IF cvLoader.cv THEN Resolve(@) ELSE @ ]
    /\ LoadFrame

\* a polling period passes after the interval was cleared, the timeout pending
TimePasses ==
    /\ ~cvLoader.interval
    /\ cvLoader.timeout
    /\ cvLoader.clock < TimeoutTicks
    /\ cvLoader' = [ cvLoader EXCEPT !.clock = @ + 1 ]
    /\ LoadFrame

\* lines 1119-1130: the timeout callback runs, 10 seconds after the executor
\* (the poll due at the same instant may run before or after it)
TimeoutFires ==
    /\ cvLoader.timeout
    /\ cvLoader.clock >= TimeoutTicks - 1
    /\ cvLoader' =
         [ cvLoader EXCEPT
             !.timeout = FALSE,
             !.interval = IF cvLoader.cv THEN @ ELSE FALSE,
             !.state = IF cvLoader.cv THEN @ ELSE TimeoutSettles(@) ]
    /\ LoadFrame

NextLoad ==
    \/ CvReady
    \/ LoadOpenCV
    \/ PollTick
    \/ TimePasses
    \/ TimeoutFires

SpecLoad == InitLoad /\ [][NextLoad]_vars

\* the browser runs the callback of every timer that is due, and time passes
SpecLoadFair ==
    /\ SpecLoad
    /\ WF_vars(PollTick)
    /\ WF_vars(TimePasses)
    /\ WF_vars(TimeoutFires)

\* C28: every call of loadOpenCV returns the one promise ever created, at
\* most one interval and one timeout are ever started, the promise is never
\* rejected, and once a call has been made it is eventually resolved,
\* whether window.cv appears or the timeout passes first.
C28_OnePromiseResolved ==
    /\ [](/\ cvLoader.promises <= 1
          /\ \A k \in 1..Len(cvLoader.returned) : cvLoader.returned[k] = 1
          /\ cvLoader.intervals <= 1
          /\ cvLoader.timeouts <= 1
          /\ cvLoader.state # "rejected")
    /\ [](cvLoader.cvPromise # 0 => <>(cvLoader.state = "resolved"))

\* the library never appeared: the timeout resolved the promise that three
\* calls had been given
C28_Witness ==
    /\ ~cvLoader.cv
    /\ cvLoader.state = "resolved"
    /\ cvLoader.timeouts = 1
    /\ ~cvLoader.timeout
    /\ Len(cvLoader.returned) >= 2

\* C29: within one run the index passed to the progress callback for the
\* k-th emitted signature is k - 1, whatever regions were skipped before it,
\* total is the length of the input region list, and index < total.
C29_IndexCountsEmitted ==
    \A r \in RunIds : \A k \in 1..Len(runs[r].log) :
        /\ runs[r].log[k].index = k - 1
        /\ runs[r].log[k].total = Len(runs[r].regions)
        /\ runs[r].log[k].index < runs[r].log[k].total

\* a signature was reported after an earlier region of the list was skipped:
\* its index is smaller than the position of its region in the list
C29_Witness ==
    \E r \in RunIds : \E k \in 1..Len(runs[r].log) :
        /\ runs[r].log[k].index = k - 1
        /\ Pos(runs[r].regions, runs[r].log[k].signature.id) > k
        /\ \E j \in 1..(Pos(runs[r].regions, runs[r].log[k].signature.id) - 1) :
               InvalidRegion(runs[r].regions[j])

\* C30: for every output size and every crop size the rectangle that
\* receives the scaled content is non-empty (width >= 1, height >= 1) and
\* lies inside the output canvas, at least 10 pixels from each of its edges.
C30_PlacedInsidePadding ==
    (probe.fn = "placement" /\ probe.done) =>
        /\ probe.out.width >= 1
        /\ probe.out.height >= 1
        /\ probe.out.dx >= MinPadding
        /\ probe.out.dy >= MinPadding
        /\ probe.out.dx + probe.out.width <= probe.targetWidth - MinPadding
        /\ probe.out.dy + probe.out.height <= probe.targetHeight - MinPadding

====
